---- MODULE Spec2Model ----
(***************************************************************************)
(* Transport layer of terraform-provider-openclaw (internal/client):       *)
(*   - mergePatch, the RFC 7396 merge-patch engine,                        *)
(*   - FileClient, the document transport (a JSON file behind a mutex),    *)
(*   - the section helpers of client.go,                                   *)
(*   - AgentResource.Create, a caller doing read-modify-write of a list,   *)
(*   - WSClient.call / readPump, request multiplexing on one connection.   *)
(***************************************************************************)
EXTENDS Integers, Sequences, FiniteSets, TLC

(***************************************************************************)
(* Bounds of the model.                                                    *)
(***************************************************************************)
\* Scalars of the documents are the numbers 1..MaxNum.
MaxNum == 1

\* Calls the callers of one FileClient issue in a run.
MaxCalls == 2

\* Writes to the document file made from outside the FileClient in a run.
MaxExt == 1

\* Calls the callers of one WSClient issue in a run.
MaxWsCalls == 2

(***************************************************************************)
(* JSON values as Go holds them in `any` after json.Unmarshal: every value *)
(* is a tagged tuple, so values of different kinds are always comparable.  *)
(***************************************************************************)
\* nil: a JSON null, a nil interface, a nil map[string]any.
Nil == <<"nil">>

Num(n) == <<"num", n>>

\* []any; lists are opaque to the merge.
List(s) == <<"list", s>>

\* map[string]any, f a function from its keys to values.
Map(f) == <<"map", f>>

\* The result of the type assertion  v.(map[string]any)  being ok.
IsMap(v) == v[1] = "map"

EmptyMap == Map([k \in {} |-> Nil])

\* The keys documents use.
Keys == {"a", "b"}

\* All maps whose keys are among Keys and whose values are in vals.
MapsOver(vals) == UNION {{Map(f) : f \in [ks -> vals]} : ks \in SUBSET Keys}

\* The non-map, non-null values: numbers and a list.
Leaves == {Num(n) : n \in 1..MaxNum} \cup {List(<<Num(1)>>)}

\* Documents nested to depth 1 and 2.  JSON allows null as a value, and a
\* patch is a partial document of the same shape, so one universe serves both.
Docs1 == MapsOver(Leaves \cup {Nil})

Docs2 == MapsOver(Leaves \cup {Nil} \cup Docs1)

\* The worked example of the merge:  {a:1, nested:{x:1, y:2}}  patched with
\* {nested:{y:3, z:4}}  gives  {a:1, nested:{x:1, y:3, z:4}}.
ExampleDoc ==
    Map([k \in {"a", "nested"} |->
          IF k = "a" THEN Num(1)
          ELSE Map([j \in {"x", "y"} |-> IF j = "x" THEN Num(1) ELSE Num(2)])])

ExamplePatch ==
    Map([k \in {"nested"} |->
          Map([j \in {"y", "z"} |-> IF j = "y" THEN Num(3) ELSE Num(4)])])

ExampleMerged ==
    Map([k \in {"a", "nested"} |->
          IF k = "a" THEN Num(1)
          ELSE Map([j \in {"x", "y", "z"} |->
                     IF j = "x" THEN Num(1) ELSE IF j = "y" THEN Num(3) ELSE Num(4)])])

\* A value holds no null at any depth.
RECURSIVE NoNull(_)
NoNull(v) ==
    /\ v # Nil
    /\ IsMap(v) => \A k \in DOMAIN v[2] : NoNull(v[2][k])

(***************************************************************************)
(* Bytes of the document file.  A file holds either the JSON text of a     *)
(* value, compact or indented by two spaces, or text that is not JSON.     *)
(* The two layouts of a value without members are the same bytes.          *)
(***************************************************************************)
Str(s) == <<"str", s>>

\* Bytes that json.Unmarshal rejects.
Text(s) == <<"text", s>>

\* A value whose compact and indented JSON texts coincide.
Flat(v) ==
    \/ v[1] \in {"nil", "num", "str"}
    \/ v[1] = "map" /\ DOMAIN v[2] = {}
    \/ v[1] = "list" /\ Len(v[2]) = 0

\* JSON text without insignificant whitespace, as json.Marshal writes it.
Compact(v) == <<"json", "compact", v>>

\* json.MarshalIndent(v, "", "  ").
MarshalIndent(v) == IF Flat(v) THEN Compact(v) ELSE <<"json", "indent", v>>

\* The 2-byte document "{}".
EmptyRaw == Compact(EmptyMap)

\* The file does not exist (os.IsNotExist).
Missing == <<"missing">>

\* parseRawJSON: json.Unmarshal into a map[string]any.  JSON null leaves the
\* map nil without error; any other non-object, and non-JSON text, is an error.
parseRawJSON(raw) ==
    IF raw[1] # "json" THEN [err |-> TRUE, val |-> Nil]
    ELSE IF raw[3] = Nil THEN [err |-> FALSE, val |-> Nil]
    ELSE IF IsMap(raw[3]) THEN [err |-> FALSE, val |-> raw[3]]
    ELSE [err |-> TRUE, val |-> Nil]

\* hashBytes: the SHA-256 digest in hex, taken to be collision-free.
hashBytes(data) == <<"sha256", data>>

\* The empty baseHash "".
NoHash == <<"sha256-none">>

\* An unused argument or result.
NoArg == <<"none">>

(***************************************************************************)
(* mergePatch (RFC 7396).  The Go code mutates target key by key while     *)
(* ranging over patch; each key of patch is handled independently of the   *)
(* others, so the result does not depend on the iteration order.           *)
(***************************************************************************)
\* The underlying function of a map; a nil map has no keys.
Fields(m) == IF m = Nil THEN [k \in {} |-> Nil] ELSE m[2]

\* A faulty merge that replaces nested maps instead of recursing into them.
mergePatchShallow(target, patch) ==
    LET t == Fields(target)
        p == Fields(patch)
        dead == {k \in DOMAIN p : p[k] = Nil}
        set == DOMAIN p \ dead
    IN  Map([k \in (DOMAIN t \ dead) \cup set |->
              IF k \in set THEN p[k] ELSE t[k]])

\* A faulty merge that stores a null instead of deleting the key.
RECURSIVE mergePatchKeepNull(_, _)
mergePatchKeepNull(target, patch) ==
    LET t == Fields(target)
        p == Fields(patch)
    IN  Map([k \in DOMAIN t \cup DOMAIN p |->
              IF k \notin DOMAIN p THEN t[k]
              ELSE IF IsMap(p[k]) /\ k \in DOMAIN t /\ IsMap(t[k])
                   THEN mergePatchKeepNull(t[k], p[k])
                   ELSE p[k]])

\* A faulty merge that appends to a list instead of replacing it.
RECURSIVE mergePatchAppend(_, _)
mergePatchAppend(target, patch) ==
    LET t == Fields(target)
        p == Fields(patch)
        dead == {k \in DOMAIN p : p[k] = Nil}
        set == DOMAIN p \ dead
    IN  Map([k \in (DOMAIN t \ dead) \cup set |->
              IF k \notin set THEN t[k]
              ELSE IF IsMap(p[k]) /\ k \in DOMAIN t /\ IsMap(t[k])
                   THEN mergePatchAppend(t[k], p[k])
                   ELSE IF p[k][1] = "list" /\ k \in DOMAIN t /\ t[k][1] = "list"
                        THEN List(t[k][2] \o p[k][2])
                        ELSE p[k]])

\* A faulty merge in which a map of the target survives a non-map patch value.
RECURSIVE mergePatchKeepMap(_, _)
mergePatchKeepMap(target, patch) ==
    LET t == Fields(target)
        p == Fields(patch)
        dead == {k \in DOMAIN p : p[k] = Nil}
        set == DOMAIN p \ dead
    IN  Map([k \in (DOMAIN t \ dead) \cup set |->
              IF k \notin set THEN t[k]
              ELSE IF IsMap(p[k]) /\ k \in DOMAIN t /\ IsMap(t[k])
                   THEN mergePatchKeepMap(t[k], p[k])
                   ELSE IF k \in DOMAIN t /\ IsMap(t[k]) THEN t[k]
                   ELSE p[k]])

RECURSIVE mergePatch(_, _)
mergePatch(target, patch) ==
    LET t == Fields(target)
        p == Fields(patch)
        dead == {k \in DOMAIN p : p[k] = Nil}
        set == DOMAIN p \ dead
    IN  Map([k \in (DOMAIN t \ dead) \cup set |->
              IF k \notin set THEN t[k]
              ELSE IF IsMap(p[k]) /\ k \in DOMAIN t /\ IsMap(t[k])
                   THEN mergePatch(t[k], p[k])
                   ELSE p[k]])

(***************************************************************************)
(* State.                                                                  *)
(***************************************************************************)
VARIABLES
    mTarget,    \* merge engine: the base document handed to mergePatch
    mPatch,     \* merge engine: the patch
    mOut,       \* merge engine: results of applying mPatch once, twice
    file,       \* document transport: the bytes at FileClient.path, or Missing
    mu,         \* FileClient.mu: the goroutine holding it, or NoOwner
    pc,         \* per goroutine: where it is inside a FileClient method
    call,       \* per goroutine: the method it is in, with its arguments
    cfg,        \* per goroutine: the payload getConfigLocked returned to it
    ret,        \* per goroutine: what its last call returned
    seen,       \* per goroutine: the payload of its last successful GetConfig
    task,       \* per goroutine: the resource operation it is carrying out
    budget,     \* calls the callers may still issue
    extWrites,  \* writes made to the file from outside the FileClient
    file0,      \* history: the file when the FileClient was constructed
    atLock,     \* history: per goroutine, the file when it last took the lock
    overlap,    \* history: per goroutine, whether its call ran beside another
    log,        \* history: the calls that returned, in the order of return
    created,    \* history: agent ids whose Create returned without error
    nextID,     \* WSClient.nextID
    pending,    \* WSClient.pending: the request ids with a registered slot
    chan,       \* per request id: the content of its one-frame delivery slot
    done,       \* WSClient.done is closed
    conn,       \* the connection: "open" or "closed"
    outbound,   \* frames written to the connection, in order
    inbound,    \* frames the peer sent that readPump has not read yet
    pump,       \* readPump: where it is, and the frame it is delivering
    wpc,        \* per goroutine: where it is inside WSClient.call
    wcall,      \* per goroutine: the request of its call
    wret,       \* per goroutine: what its call returns
    wbudget,    \* calls the callers of the WSClient may still issue
    answered,   \* peer: the request ids it has answered, in order
    sent,       \* history: per goroutine, the frames its current call wrote
    dpc,        \* NewWSClient: where it is
    attempt,    \* NewWSClient: the loop variable attempt
    backoff,    \* NewWSClient: the variable backoff, in seconds
    lastErr,    \* NewWSClient: the variable lastErr
    ctxDone,    \* the context given to NewWSClient is cancelled or expired
    sess,       \* the session of the current attempt of dialAndHandshake
    result,     \* what NewWSClient returned
    waits,      \* history: the backoff waits that elapsed, in seconds
    dials,      \* history: the number of calls of DialContext
    tries,      \* history: how each attempt that ended did end
    sect,       \* per goroutine: the section helper it is carrying out
    prov,       \* the provider: its configuration and where Configure is
    cron        \* the openclaw_cron resource: where its Delete is

mergeVars == <<mTarget, mPatch, mOut>>

fileVars == <<file, mu, pc, call, cfg, ret, seen, task, budget, extWrites,
              file0, atLock, overlap, log, created>>

wsVars == <<nextID, pending, chan, done, conn, outbound, inbound, pump, wpc,
            wcall, wret, wbudget, answered, sent>>

dialVars == <<dpc, attempt, backoff, lastErr, ctxDone, sess, result, waits,
              dials, tries>>

sectVars == <<sect>>

resVars == <<prov, cron>>

vars == <<mTarget, mPatch, mOut, file, mu, pc, call, cfg, ret, seen, task,
          budget, extWrites, file0, atLock, overlap, log, created,
          nextID, pending, chan, done, conn, outbound, inbound, pump, wpc,
          wcall, wret, wbudget, answered, sent,
          dpc, attempt, backoff, lastErr, ctxDone, sess, result, waits,
          dials, tries, sect, prov, cron>>

\* What the steps of the merge engine, and of the document transport, leave
\* alone.
notMergeVars == <<fileVars, wsVars, dialVars, sectVars, resVars>>

notFileVars == <<mergeVars, wsVars, dialVars, sectVars, resVars>>

notWsVars == <<mergeVars, fileVars, dialVars, sectVars, resVars>>

notDialVars == <<mergeVars, fileVars, wsVars, sectVars, resVars>>

\* The goroutines calling into one FileClient.
Procs == {1, 2}

NoOwner == 0

NoCall == [op |-> "none", patch |-> NoArg, raw |-> NoArg, baseHash |-> NoHash]

NoPayload == [raw |-> NoArg, hash |-> NoHash]

NoRet == [err |-> "none", payload |-> NoPayload, wrote |-> NoArg]

NoTask == [kind |-> "none", id |-> "", stage |-> "none"]

\* The document transport before any call, on a file holding f.
FileStart(f, n) ==
    /\ file = f
    /\ file0 = f
    /\ mu = NoOwner
    /\ pc = [p \in Procs |-> "idle"]
    /\ call = [p \in Procs |-> NoCall]
    /\ cfg = [p \in Procs |-> NoPayload]
    /\ ret = [p \in Procs |-> NoRet]
    /\ seen = [p \in Procs |-> NoPayload]
    /\ task = [p \in Procs |-> NoTask]
    /\ budget = n
    /\ extWrites = 0
    /\ atLock = [p \in Procs |-> NoArg]
    /\ overlap = [p \in Procs |-> FALSE]
    /\ log = <<>>
    /\ created = {}

\* The merge engine when it is not the subject.
MergeIdle ==
    /\ mTarget = Nil
    /\ mPatch = EmptyMap
    /\ mOut = <<>>

\* The goroutines calling into one WSClient.
WsProcs == {1, 2}

NoFrame == [type |-> "none", id |-> 0, method |-> "", params |-> NoArg,
            ok |-> FALSE, payload |-> NoArg, event |-> ""]

NoWsRet == [kind |-> "none", frame |-> NoFrame]

\* A WSClient as NewWSClient returns it, with n calls for its callers to
\* make: the handshake's connect call used request id 1 and has returned,
\* readPump is reading, nothing is in flight.
WsStart(n) ==
    /\ nextID = 1
    /\ pending = {}
    /\ chan = <<>>
    /\ done = FALSE
    /\ conn = "open"
    /\ outbound = <<>>
    /\ inbound = <<>>
    /\ pump = [pc |-> "read", frame |-> NoFrame, to |-> 0]
    /\ wpc = [p \in WsProcs |-> "idle"]
    /\ wcall = [p \in WsProcs |-> NoFrame]
    /\ wret = [p \in WsProcs |-> NoWsRet]
    /\ wbudget = n
    /\ answered = <<>>
    /\ sent = [p \in WsProcs |-> 0]

\* The token of WSClientConfig, and the time at which a handshake signs.
CfgToken == "secret"

SignedAt == "now"

\* handshake: the nonce of a challenge payload, "" unless the payload is a
\* map whose "nonce" is a string.
NonceOf(payload) ==
    IF IsMap(payload) /\ "nonce" \in DOMAIN payload[2] /\ payload[2]["nonce"][1] = "str"
    THEN payload[2]["nonce"][2]
    ELSE ""

\* A faulty payload that is cut after the token whatever the version.
SignedPayloadShort(deviceID, nonce) ==
    <<IF nonce # "" THEN "v2" ELSE "v1", deviceID, "cli", "cli", "operator",
      "operator.read,operator.write,operator.admin", SignedAt, CfgToken>>

\* handshake: the fields of the signed payload, which are joined by "|".
SignedPayload(deviceID, nonce) ==
    IF nonce # ""
    THEN <<"v2", deviceID, "cli", "cli", "operator",
           "operator.read,operator.write,operator.admin", SignedAt, CfgToken, nonce>>
    ELSE <<"v1", deviceID, "cli", "cli", "operator",
           "operator.read,operator.write,operator.admin", SignedAt, CfgToken>>

\* handshake: the device block of the connect parameters.
Device(deviceID, nonce) ==
    LET device == [k \in {"id", "publicKey", "signature", "signedAt"} |->
                     IF k = "id" THEN <<"sha256", deviceID>>
                     ELSE IF k = "publicKey" THEN <<"pub", deviceID>>
                     ELSE IF k = "signature"
                          THEN <<"sig", deviceID, SignedPayload(deviceID, nonce)>>
                     ELSE <<SignedAt>>]
    IN  IF nonce # "" THEN ("nonce" :> <<nonce>>) @@ device ELSE device

\* The request frame of the connect call: the first call of its session.
ConnectRequest(deviceID, nonce) ==
    [type |-> "req", id |-> 1, method |-> "connect",
     device |-> Device(deviceID, nonce), auth |-> CfgToken]

\* A session of dialAndHandshake: the connection, whether readPump was
\* started, the challenge slot, the nonce of a challenge readPump discarded
\* because the slot was full, how the wait for the challenge ended, the payload and
\* nonce it took, the identity generated, the request counter, the pending
\* table, the frames written, how the connect call ended, and the field
\* connected.
NoSession ==
    [conn |-> "none", pump |-> FALSE, slot |-> NoArg, lost |-> NoArg,
     challenge |-> "none", got |-> NoArg, nonce |-> "", key |-> 0, nextID |-> 0, pending |-> {},
     wrote |-> <<>>, connect |-> "none", connected |-> FALSE]

\* The WSClient literal of dialAndHandshake, and go c.readPump().
NewSession ==
    [conn |-> "open", pump |-> TRUE, slot |-> NoArg, lost |-> NoArg,
     challenge |-> "waiting", got |-> NoArg, nonce |-> "", key |-> 0, nextID |-> 0, pending |-> {},
     wrote |-> <<>>, connect |-> "none", connected |-> FALSE]

\* What is left of a session when dialAndHandshake returns an error: the
\* client is dropped and its connection closed.  How the attempt went is
\* kept for the record.
Dropped(c) ==
    [NoSession EXCEPT !.conn = "closed", !.challenge = c.challenge,
                      !.connect = c.connect]

FirstSession ==
    [NewSession EXCEPT !.challenge = "event",
                       !.got = Map("nonce" :> Str("n1")), !.nonce = "n1",
                       !.key = 1, !.nextID = 1,
                       !.wrote = <<ConnectRequest(1, "n1")>>,
                       !.connect = "ok", !.connected = TRUE]

\* NewWSClient when it is not the subject: it returned the client of its
\* first attempt.
DialIdle ==
    /\ dpc = "returned"
    /\ attempt = 0
    /\ backoff = 1
    /\ lastErr = ""
    /\ ctxDone = FALSE
    /\ sess = FirstSession
    /\ result = "client"
    /\ waits = <<>>
    /\ dials = 1
    /\ tries = <<"client">>

NoSect ==
    [stage |-> "none", fn |-> "", keys |-> <<>>, val |-> Nil, hash |-> NoHash,
     err |-> ""]

\* The section helpers when they are not the subject.
SectIdle == sect = [p \in Procs |-> NoSect]

\* A setting absent from the HCL configuration, and one not yet known.
Null == <<"null">>

Unknown == <<"unknown">>

\* The environment variables the provider reads, none of them set.
NoEnv ==
    [k \in {"OPENCLAW_GATEWAY_URL", "OPENCLAW_GATEWAY_TOKEN", "OPENCLAW_CONFIG_PATH",
            "HOME"} |-> ""]

NoProv ==
    [stage |-> "none",
     hcl |-> [gateway_url |-> Null, token |-> Null, config_path |-> Null],
     env |-> NoEnv,
     gatewayURL |-> "", token |-> "", configPath |-> "",
     made |-> <<>>, client |-> <<"none">>, diag |-> ""]

\* Error texts are sequences of pieces; <<>> is the nil error.
NoCron == [stage |-> "none", kind |-> "", err |-> <<>>, warning |-> FALSE, error |-> FALSE]

\* The provider and the resources when they are not the subject.
ResIdle ==
    /\ prov = NoProv
    /\ cron = NoCron

(***************************************************************************)
(* The merge engine on its own: a base document and a patch are drawn, and *)
(* the patch is applied, then applied again to the result.                 *)
(***************************************************************************)
MergeInit ==
    /\ mTarget \in Docs2 \cup {Nil, ExampleDoc}
    /\ mPatch \in Docs2 \cup {ExamplePatch}
    /\ mOut = <<>>
    /\ FileStart(Missing, 0)
    /\ WsStart(0)
    /\ DialIdle
    /\ SectIdle
    /\ ResIdle

MergeApply ==
    /\ mOut = <<>>
    /\ mOut' = <<mergePatch(mTarget, mPatch)>>
    /\ UNCHANGED <<mTarget, mPatch>>
    /\ UNCHANGED notMergeVars

MergeAgain ==
    /\ Len(mOut) = 1
    /\ mOut' = Append(mOut, mergePatch(mOut[1], mPatch))
    /\ UNCHANGED <<mTarget, mPatch>>
    /\ UNCHANGED notMergeVars

MergeNext == MergeApply \/ MergeAgain

SpecMerge == MergeInit /\ [][MergeNext]_vars

(***************************************************************************)
(* Properties of the merge engine, checked under SpecMerge.                *)
(***************************************************************************)
\* C8: merge-patch is idempotent under repetition: for every base document
\* and every patch that holds no null at any depth, applying the patch to
\* the result of applying it gives that same result.
C8_MergeIdempotent ==
    (Len(mOut) = 2 /\ NoNull(mPatch)) => mOut[2] = mOut[1]

\* The patch was applied twice, it changed the document, and it recursed
\* into a map the document already had.
C8_Witness ==
    /\ Len(mOut) = 2
    /\ NoNull(mPatch)
    /\ mTarget # Nil
    /\ mOut[1] # mTarget
    /\ mOut[2] = mOut[1]
    /\ \E k \in DOMAIN mPatch[2] \cap DOMAIN mTarget[2] :
          /\ IsMap(mPatch[2][k]) /\ IsMap(mTarget[2][k])
          /\ mOut[1][2][k] # mTarget[2][k]
          /\ mOut[1][2][k] # mPatch[2][k]

\* Everything of d that p does not mention is found unchanged in r, at every
\* depth at which d and p are both maps.
RECURSIVE Untouched(_, _, _)
Untouched(d, p, r) ==
    /\ IsMap(r)
    /\ \A k \in DOMAIN Fields(d) :
          /\ k \notin DOMAIN Fields(p) =>
                k \in DOMAIN r[2] /\ r[2][k] = Fields(d)[k]
          /\ (k \in DOMAIN Fields(p) /\ IsMap(Fields(d)[k]) /\ IsMap(Fields(p)[k])) =>
                k \in DOMAIN r[2] /\ Untouched(Fields(d)[k], Fields(p)[k], r[2][k])

\* C10: merge-patch leaves untouched everything the patch does not mention:
\* a key of the document absent from the patch keeps its value, recursively
\* wherever document and patch are both maps; and the worked example gives
\* {a:1, nested:{x:1, y:3, z:4}}.
C10_MergeFrame ==
    Len(mOut) >= 1 =>
        /\ Untouched(mTarget, mPatch, mOut[1])
        /\ (mTarget = ExampleDoc /\ mPatch = ExamplePatch) => mOut[1] = ExampleMerged

\* The worked example has been merged: a top-level sibling and a nested
\* sibling survive next to a changed and an added nested key.
C10_Witness ==
    /\ Len(mOut) >= 1
    /\ mTarget = ExampleDoc
    /\ mPatch = ExamplePatch
    /\ mOut[1] = ExampleMerged

(***************************************************************************)
(* FileClient, the document transport.  A method is a sequence of steps of *)
(* the calling goroutine (take the mutex, read the file, write the file,   *)
(* release the mutex and return), so that the steps of two goroutines can  *)
(* interleave wherever the mutex allows it.  The file system is taken to   *)
(* fail in one way only: the file does not exist.                          *)
(***************************************************************************)
\* A faulty mutex that never makes a goroutine wait.
MutexNeverHeld == TRUE

\* f.mu.Lock() can return: no goroutine holds the mutex.
MutexFree == mu = NoOwner

\* A faulty PatchConfig that rejects a baseHash other than the hash it read.
\* A faulty read that reports a missing file as an empty string, not as "{}".
ReadPayloadBlank(f) ==
    IF f = Missing
    THEN [raw |-> Text(""), hash |-> hashBytes(Text(""))]
    ELSE [raw |-> f, hash |-> hashBytes(f)]

BaseHashEnforced(baseHash, hash) == baseHash = hash

\* PatchConfig accepts every baseHash: the parameter is not even named.
BaseHashAccepted(baseHash, hash) == TRUE

\* The payload getConfigLocked builds from what os.ReadFile finds.
ReadPayload(f) ==
    IF f = Missing
    THEN [raw |-> EmptyRaw, hash |-> hashBytes(EmptyRaw)]
    ELSE [raw |-> f, hash |-> hashBytes(f)]

\* Goroutine p enters a method: c is the method and its arguments.
Begin(p, c, at) ==
    /\ pc[p] = "idle"
    /\ pc' = [pc EXCEPT ![p] = at]
    /\ call' = [call EXCEPT ![p] = c]
    /\ ret' = [ret EXCEPT ![p] = NoRet]
    /\ overlap' = [q \in Procs |->
                     IF q = p THEN \E r \in Procs \ {p} : pc[r] # "idle"
                     ELSE overlap[q] \/ pc[q] # "idle"]

\* The patches and raw documents the callers of the general model pass.
PatchAB == Map("a" :> Map("b" :> Num(1)))

PatchDelA == Map("a" :> Nil)

FilePatches ==
    {PatchAB, PatchDelA, Map("b" :> Num(1)), Map("a" :> Map("a" :> List(<<Num(1)>>)))}

ApplyRaws == {Compact(Map("b" :> Num(1))), Text("not json")}

\* What the file may hold when the FileClient is constructed.
InitFiles ==
    {Missing, EmptyRaw, Text("not json"),
     Compact(Map("a" :> Map("a" :> Num(1)) @@ "b" :> List(<<Num(1)>>)))}

\* What a writer outside the FileClient may store.
ExtRaws == {Compact(Map("a" :> Map("a" :> Num(1))))}

\* A caller with no resource operation under way issues a call.
CallerFree(p) ==
    /\ task[p] = NoTask
    /\ budget > 0
    /\ budget' = budget - 1
    /\ UNCHANGED <<file, mu, cfg, seen, task, extWrites, file0, atLock, log, created>>
    /\ UNCHANGED notFileVars

CallGetConfig(p) ==
    /\ CallerFree(p)
    /\ Begin(p, [op |-> "GetConfig", patch |-> NoArg, raw |-> NoArg,
                 baseHash |-> NoHash], "lock")

\* The caller passes the hash it last observed, or none.
CallPatchConfig(p) ==
    /\ CallerFree(p)
    /\ \E patch \in FilePatches, h \in {seen[p].hash, NoHash} :
          Begin(p, [op |-> "PatchConfig", patch |-> patch, raw |-> NoArg,
                    baseHash |-> h], "lock")

CallApplyConfig(p) ==
    /\ CallerFree(p)
    /\ \E raw \in ApplyRaws, h \in {seen[p].hash, NoHash} :
          Begin(p, [op |-> "ApplyConfig", patch |-> NoArg, raw |-> raw,
                    baseHash |-> h], "lock")

\* Health takes no lock: the goroutine is in its body at once.
CallHealth(p) ==
    /\ CallerFree(p)
    /\ Begin(p, [op |-> "Health", patch |-> NoArg, raw |-> NoArg,
                 baseHash |-> NoHash], "health")

\* f.mu.Lock() of GetConfig, PatchConfig and ApplyConfig.
Lock(p) ==
    /\ pc[p] = "lock"
    /\ MutexFree
    /\ mu' = p
    /\ pc' = [pc EXCEPT ![p] = IF call[p].op = "ApplyConfig" THEN "write" ELSE "read"]
    /\ atLock' = [atLock EXCEPT ![p] = file]
    /\ UNCHANGED <<file, call, cfg, ret, seen, task, budget, extWrites, file0,
                   overlap, log, created>>
    /\ UNCHANGED notFileVars

\* A faulty read that creates the missing file.
getConfigLockedCreates(p) ==
    /\ pc[p] = "read"
    /\ cfg' = [cfg EXCEPT ![p] = ReadPayload(file)]
    /\ file' = IF file = Missing THEN EmptyRaw ELSE file
    /\ IF call[p].op = "GetConfig"
       THEN /\ ret' = [ret EXCEPT ![p] = [err |-> "", payload |-> ReadPayload(file),
                                          wrote |-> NoArg]]
            /\ pc' = [pc EXCEPT ![p] = "unlock"]
       ELSE /\ ret' = ret
            /\ pc' = [pc EXCEPT ![p] = "write"]
    /\ UNCHANGED <<mu, call, seen, task, budget, extWrites, file0, atLock,
                   overlap, log, created>>
    /\ UNCHANGED notFileVars

\* getConfigLocked, called with the mutex held by GetConfig and PatchConfig.
\* GetConfig returns its result; PatchConfig goes on to merge and write.
getConfigLocked(p) ==
    /\ pc[p] = "read"
    /\ cfg' = [cfg EXCEPT ![p] = ReadPayload(file)]
    /\ IF call[p].op = "GetConfig"
       THEN /\ ret' = [ret EXCEPT ![p] = [err |-> "", payload |-> ReadPayload(file),
                                          wrote |-> NoArg]]
            /\ pc' = [pc EXCEPT ![p] = "unlock"]
       ELSE /\ ret' = ret
            /\ pc' = [pc EXCEPT ![p] = "write"]
    /\ UNCHANGED <<file, mu, call, seen, task, budget, extWrites, file0, atLock,
                   overlap, log, created>>
    /\ UNCHANGED notFileVars

\* A faulty PatchConfig that takes a document it cannot parse for an empty
\* one and writes the patch alone.
PatchWriteOverBroken(p) ==
    /\ pc[p] = "write"
    /\ call[p].op = "PatchConfig"
    /\ LET existing == parseRawJSON(cfg[p].raw)
           out == MarshalIndent(mergePatch(existing.val, call[p].patch))
       IN  /\ ret' = [ret EXCEPT ![p] = [err |-> "", payload |-> NoPayload,
                                         wrote |-> out]]
           /\ file' = out
    /\ pc' = [pc EXCEPT ![p] = "unlock"]
    /\ UNCHANGED <<mu, call, cfg, seen, task, budget, extWrites, file0, atLock,
                   overlap, log, created>>
    /\ UNCHANGED notFileVars

\* The rest of PatchConfig: parse what was read, merge, encode, write.
PatchWrite(p) ==
    /\ pc[p] = "write"
    /\ call[p].op = "PatchConfig"
    /\ LET existing == parseRawJSON(cfg[p].raw)
           out == MarshalIndent(mergePatch(existing.val, call[p].patch))
       IN  IF existing.err
           THEN /\ ret' = [ret EXCEPT ![p] = [err |-> "parsing existing config",
                                              payload |-> NoPayload, wrote |-> NoArg]]
                /\ file' = file
           ELSE IF ~BaseHashAccepted(call[p].baseHash, cfg[p].hash)
           THEN /\ ret' = [ret EXCEPT ![p] = [err |-> "hash mismatch",
                                              payload |-> NoPayload, wrote |-> NoArg]]
                /\ file' = file
           ELSE /\ ret' = [ret EXCEPT ![p] = [err |-> "", payload |-> NoPayload,
                                              wrote |-> out]]
                /\ file' = out
    /\ pc' = [pc EXCEPT ![p] = "unlock"]
    /\ UNCHANGED <<mu, call, cfg, seen, task, budget, extWrites, file0, atLock,
                   overlap, log, created>>
    /\ UNCHANGED notFileVars

\* A faulty ApplyConfig that writes only when baseHash is the file's hash.
ApplyWriteNeedsHash(p) ==
    /\ pc[p] = "write"
    /\ call[p].op = "ApplyConfig"
    /\ IF call[p].baseHash = ReadPayload(file).hash
       THEN /\ file' = call[p].raw
            /\ ret' = [ret EXCEPT ![p] = [err |-> "", payload |-> NoPayload,
                                          wrote |-> call[p].raw]]
       ELSE /\ file' = file
            /\ ret' = [ret EXCEPT ![p] = [err |-> "hash mismatch",
                                          payload |-> NoPayload, wrote |-> NoArg]]
    /\ pc' = [pc EXCEPT ![p] = "unlock"]
    /\ UNCHANGED <<mu, call, cfg, seen, task, budget, extWrites, file0, atLock,
                   overlap, log, created>>
    /\ UNCHANGED notFileVars

\* The body of ApplyConfig: the raw string replaces the file.
ApplyWrite(p) ==
    /\ pc[p] = "write"
    /\ call[p].op = "ApplyConfig"
    /\ file' = call[p].raw
    /\ ret' = [ret EXCEPT ![p] = [err |-> "", payload |-> NoPayload,
                                  wrote |-> call[p].raw]]
    /\ pc' = [pc EXCEPT ![p] = "unlock"]
    /\ UNCHANGED <<mu, call, cfg, seen, task, budget, extWrites, file0, atLock,
                   overlap, log, created>>
    /\ UNCHANGED notFileVars

\* What a returning call leaves with its caller and in the history.
Returned(p) ==
    /\ pc' = [pc EXCEPT ![p] = "idle"]
    /\ log' = Append(log, [p |-> p, call |-> call[p], ret |-> ret[p],
                           conc |-> overlap[p]])
    /\ seen' = [seen EXCEPT ![p] =
                  IF call[p].op = "GetConfig" /\ ret[p].err = ""
                  THEN ret[p].payload ELSE @]

\* The deferred f.mu.Unlock(), and the return to the caller.
Unlock(p) ==
    /\ pc[p] = "unlock"
    /\ mu' = NoOwner
    /\ Returned(p)
    /\ UNCHANGED <<file, call, cfg, ret, task, budget, extWrites, file0, atLock,
                   overlap, created>>
    /\ UNCHANGED notFileVars

\* A faulty Health that reports success once the file exists.
HealthProbesFile(p) ==
    /\ pc[p] = "health"
    /\ LET r == [err |-> IF file = Missing
                         THEN "health check not available in file mode" ELSE "",
                 payload |-> NoPayload, wrote |-> NoArg]
       IN  /\ ret' = [ret EXCEPT ![p] = r]
           /\ log' = Append(log, [p |-> p, call |-> call[p], ret |-> r,
                                  conc |-> overlap[p]])
    /\ pc' = [pc EXCEPT ![p] = "idle"]
    /\ UNCHANGED <<file, mu, call, cfg, seen, task, budget, extWrites, file0,
                   atLock, overlap, created>>
    /\ UNCHANGED notFileVars

\* Health: the error of file mode, whatever the document.
HealthReturn(p) ==
    /\ pc[p] = "health"
    /\ ret' = [ret EXCEPT ![p] = [err |-> "health check not available in file mode",
                                  payload |-> NoPayload, wrote |-> NoArg]]
    /\ pc' = [pc EXCEPT ![p] = "idle"]
    /\ log' = Append(log, [p |-> p, call |-> call[p],
                           ret |-> [err |-> "health check not available in file mode",
                                    payload |-> NoPayload, wrote |-> NoArg],
                           conc |-> overlap[p]])
    /\ UNCHANGED <<file, mu, call, cfg, seen, task, budget, extWrites, file0,
                   atLock, overlap, created>>
    /\ UNCHANGED notFileVars

\* A process other than this FileClient writes the file; no mutex stops it.
ExternalWrite ==
    /\ extWrites < MaxExt
    /\ extWrites' = extWrites + 1
    /\ \E raw \in ExtRaws : file' = raw
    /\ UNCHANGED <<mu, pc, call, cfg, ret, seen, task, budget, file0, atLock,
                   overlap, log, created>>
    /\ UNCHANGED notFileVars

\* The steps inside the FileClient.
FileSteps ==
    \E p \in Procs :
        \/ Lock(p)
        \/ getConfigLocked(p)
        \/ PatchWrite(p)
        \/ ApplyWrite(p)
        \/ Unlock(p)
        \/ HealthReturn(p)

\* The callers of the general model: any method, any time.
FileCalls ==
    \E p \in Procs :
        \/ CallGetConfig(p)
        \/ CallPatchConfig(p)
        \/ CallApplyConfig(p)
        \/ CallHealth(p)

FileInit ==
    /\ MergeIdle
    /\ WsStart(0)
    /\ DialIdle
    /\ SectIdle
    /\ ResIdle
    /\ \E f \in InitFiles : FileStart(f, MaxCalls)

FileNext == FileCalls \/ FileSteps

\* One FileClient, its callers the only writers of the file.
SpecFile == FileInit /\ [][FileNext]_vars

\* Callers that read and patch, beside a writer outside the process.
ExtNext ==
    \/ \E p \in Procs :
          \/ CallGetConfig(p)
          \/ CallPatchConfig(p)
          \/ Lock(p)
          \/ getConfigLocked(p)
          \/ PatchWrite(p)
          \/ Unlock(p)
    \/ ExternalWrite

ExtInit ==
    /\ MergeIdle
    /\ WsStart(0)
    /\ DialIdle
    /\ SectIdle
    /\ ResIdle
    /\ \E f \in {Missing, Compact(Map("b" :> Num(1)))} : FileStart(f, MaxCalls)

SpecFileExt == ExtInit /\ [][ExtNext]_vars

(***************************************************************************)
(* The section helpers of client.go that write: each builds a patch and    *)
(* hands it to PatchConfig.                                                *)
(***************************************************************************)
\* Deletions one caller issues in a run of SpecDelete.
MaxDeletes == 1

\* The patch DeleteSection builds: the key set to nil.
DeleteSection(key) == Map(key :> Nil)

CallDeleteSection(p) ==
    /\ CallerFree(p)
    /\ \E key \in Keys :
          Begin(p, [op |-> "PatchConfig", patch |-> DeleteSection(key),
                    raw |-> NoArg, baseHash |-> seen[p].hash], "lock")

\* Any document of the universe, or no file, and callers that only delete.
DeleteInit ==
    /\ MergeIdle
    /\ WsStart(0)
    /\ DialIdle
    /\ SectIdle
    /\ ResIdle
    /\ \E f \in {Missing} \cup {Compact(d) : d \in Docs2} : FileStart(f, MaxDeletes)

DeleteNext ==
    \E p \in Procs :
        \/ CallDeleteSection(p)
        \/ Lock(p)
        \/ getConfigLocked(p)
        \/ PatchWrite(p)
        \/ Unlock(p)

SpecDelete == DeleteInit /\ [][DeleteNext]_vars

(***************************************************************************)
(* One caller running the end-to-end scenario                              *)
(*   PatchConfig({"a":{"b":1}}, h); GetConfig; PatchConfig({"a":null}, h');*)
(*   GetConfig                                                             *)
(* on the document {}, beside a second goroutine that only reads.          *)
(***************************************************************************)
Scenario ==
    << [op |-> "PatchConfig", patch |-> PatchAB, raw |-> NoArg],
       [op |-> "GetConfig", patch |-> NoArg, raw |-> NoArg],
       [op |-> "PatchConfig", patch |-> PatchDelA, raw |-> NoArg],
       [op |-> "GetConfig", patch |-> NoArg, raw |-> NoArg] >>

\* The goroutine running the scenario, and its calls that returned.
ScenarioProc == 1

ByScenarioProc(e) == e.p = ScenarioProc

ScenarioLog == SelectSeq(log, ByScenarioProc)

\* The hashes tried: none, the one last observed, one of some other document.
ScenarioHashes(p) == {NoHash, seen[p].hash, hashBytes(Text("stale"))}

ScenarioCall ==
    /\ Len(ScenarioLog) < Len(Scenario)
    /\ LET c == Scenario[Len(ScenarioLog) + 1]
       IN  \E h \in (IF c.op = "PatchConfig" THEN ScenarioHashes(ScenarioProc) ELSE {NoHash}) :
              Begin(ScenarioProc, [op |-> c.op, patch |-> c.patch, raw |-> c.raw,
                                   baseHash |-> h], "lock")
    /\ UNCHANGED <<file, mu, cfg, seen, task, budget, extWrites, file0, atLock,
                   log, created>>
    /\ UNCHANGED notFileVars

ScenarioInit ==
    /\ MergeIdle
    /\ WsStart(0)
    /\ DialIdle
    /\ SectIdle
    /\ ResIdle
    /\ \E f \in {Missing, EmptyRaw} : FileStart(f, MaxCalls)

ScenarioNext ==
    \/ ScenarioCall
    \/ \E p \in Procs \ {ScenarioProc} : CallGetConfig(p)
    \/ \E p \in Procs :
          \/ Lock(p)
          \/ getConfigLocked(p)
          \/ PatchWrite(p)
          \/ Unlock(p)

SpecScenario == ScenarioInit /\ [][ScenarioNext]_vars

(***************************************************************************)
(* AgentResource.Create over a FileClient: read agents.list with           *)
(* GetSection, put the entry in the list, write the whole list back with   *)
(* PatchConfig and the hash observed.  Two goroutines create two agents.   *)
(***************************************************************************)
AgentIds == {"x", "y"}

\* modelToMap: the entry of an agent; only its id matters here.
AgentEntry(id) == Map("id" :> Str(id))

\* getAgentsList on the result of GetConfig: the list, or nil, or an error.
getAgentsList(r) ==
    IF r.err # "" THEN [err |-> TRUE, list |-> <<>>]
    ELSE LET parsed == parseRawJSON(r.payload.raw)
             doc == Fields(parsed.val)
         IN  IF parsed.err THEN [err |-> TRUE, list |-> <<>>]
             ELSE IF "agents" \notin DOMAIN doc THEN [err |-> FALSE, list |-> <<>>]
             ELSE IF ~IsMap(doc["agents"]) THEN [err |-> TRUE, list |-> <<>>]
             ELSE IF "list" \notin DOMAIN doc["agents"][2] THEN [err |-> FALSE, list |-> <<>>]
             ELSE IF doc["agents"][2]["list"][1] # "list" THEN [err |-> TRUE, list |-> <<>>]
             ELSE [err |-> FALSE, list |-> doc["agents"][2]["list"][2]]

\* The item is the entry of agent id.
IsAgent(item, id) ==
    /\ IsMap(item)
    /\ "id" \in DOMAIN item[2]
    /\ item[2]["id"] = Str(id)

\* findAgentIndex: the first index holding the agent, or 0 for none (-1 in Go,
\* whose lists count from 0).
findAgentIndex(list, id) ==
    IF \E i \in 1..Len(list) : IsAgent(list[i], id)
    THEN CHOOSE i \in 1..Len(list) :
            /\ IsAgent(list[i], id)
            /\ \A j \in 1..(i - 1) : ~IsAgent(list[j], id)
    ELSE 0

\* The list Create writes: the entry replaces the agent's old one or is appended.
WithAgent(list, id) ==
    LET idx == findAgentIndex(list, id)
    IN  IF idx > 0 THEN [list EXCEPT ![idx] = AgentEntry(id)]
        ELSE Append(list, AgentEntry(id))

\* writeAgentsList: the patch carrying the whole list.
writeAgentsList(list) == Map("agents" :> Map("list" :> List(list)))

\* Create starts: getAgentsList calls GetSection, which calls GetConfig.
CreateRead(p) ==
    /\ task[p] = NoTask
    /\ \E id \in AgentIds :
          /\ id \notin created
          /\ \A q \in Procs : task[q].id # id
          /\ task' = [task EXCEPT ![p] = [kind |-> "Create", id |-> id, stage |-> "get"]]
    /\ Begin(p, [op |-> "GetConfig", patch |-> NoArg, raw |-> NoArg,
                 baseHash |-> NoHash], "lock")
    /\ UNCHANGED <<file, mu, cfg, seen, budget, extWrites, file0, atLock, log, created>>
    /\ UNCHANGED notFileVars

\* GetConfig has returned: Create gives up on an error, or calls PatchConfig
\* with the new list and the hash it observed.
CreateWrite(p) ==
    /\ task[p].kind = "Create"
    /\ task[p].stage = "get"
    /\ pc[p] = "idle"
    /\ LET got == getAgentsList(ret[p])
       IN  IF got.err
           THEN /\ task' = [task EXCEPT ![p] = NoTask]
                /\ UNCHANGED <<pc, call, ret, overlap>>
           ELSE /\ task' = [task EXCEPT ![p].stage = "write"]
                /\ Begin(p, [op |-> "PatchConfig",
                             patch |-> writeAgentsList(WithAgent(got.list, task[p].id)),
                             raw |-> NoArg,
                             baseHash |-> ret[p].payload.hash], "lock")
    /\ UNCHANGED <<file, mu, cfg, seen, budget, extWrites, file0, atLock, log, created>>
    /\ UNCHANGED notFileVars

\* PatchConfig has returned: Create reports the error, or sets the state.
CreateDone(p) ==
    /\ task[p].kind = "Create"
    /\ task[p].stage = "write"
    /\ pc[p] = "idle"
    /\ created' = IF ret[p].err = "" THEN created \cup {task[p].id} ELSE created
    /\ task' = [task EXCEPT ![p] = NoTask]
    /\ UNCHANGED <<file, mu, pc, call, cfg, ret, seen, budget, extWrites, file0,
                   atLock, overlap, log>>
    /\ UNCHANGED notFileVars

\* The agent ids in agents.list of the file.
AgentsInFile ==
    LET got == getAgentsList([err |-> "", payload |-> ReadPayload(file), wrote |-> NoArg])
    IN  {id \in AgentIds \cup {"z"} : \E i \in 1..Len(got.list) : IsAgent(got.list[i], id)}

AgentsInit ==
    /\ MergeIdle
    /\ WsStart(0)
    /\ DialIdle
    /\ SectIdle
    /\ ResIdle
    /\ \E f \in {Missing, EmptyRaw,
                 Compact(writeAgentsList(<<AgentEntry("z")>>)),
                 Compact(Map("a" :> Num(1)))} : FileStart(f, 0)

AgentsNext ==
    \E p \in Procs :
        \/ CreateRead(p)
        \/ CreateWrite(p)
        \/ CreateDone(p)
        \/ Lock(p)
        \/ getConfigLocked(p)
        \/ PatchWrite(p)
        \/ Unlock(p)

SpecAgents == AgentsInit /\ [][AgentsNext]_vars

(***************************************************************************)
(* Properties of the document transport.                                   *)
(***************************************************************************)
\* The file an undisturbed PatchConfig(patch) leaves when it finds f: an
\* unparsable document is left as it is.
PatchedFile(f, patch) ==
    LET existing == parseRawJSON(ReadPayload(f).raw)
    IN  IF existing.err THEN f
        ELSE MarshalIndent(mergePatch(existing.val, patch))

AllIdle == \A p \in Procs : pc[p] = "idle"

\* C1: when two PatchConfig calls P1 and P2 on one FileClient have returned,
\* however their steps interleaved, the file is the one that applying P1 then
\* P2, or P2 then P1, to the initial document leaves, and on a parsable
\* document both calls succeeded: no read-merge-write is torn and no patch is
\* lost.  (SpecFile: the FileClient's callers are the only writers.)
C1_PatchesSerialised ==
    (/\ AllIdle
     /\ Len(log) = 2
     /\ log[1].call.op = "PatchConfig"
     /\ log[2].call.op = "PatchConfig")
    => LET P1 == log[1].call.patch
           P2 == log[2].call.patch
       IN  /\ file \in {PatchedFile(PatchedFile(file0, P1), P2),
                        PatchedFile(PatchedFile(file0, P2), P1)}
           /\ ~parseRawJSON(ReadPayload(file0).raw).err =>
                 log[1].ret.err = "" /\ log[2].ret.err = ""

\* Two goroutines patched a populated document at the same time, with
\* patches whose two orders leave different documents.
C1_Witness ==
    /\ AllIdle
    /\ Len(log) = 2
    /\ log[1].call.op = "PatchConfig"
    /\ log[2].call.op = "PatchConfig"
    /\ log[1].p # log[2].p
    /\ log[1].conc /\ log[2].conc
    /\ file0 \notin {Missing, EmptyRaw}
    /\ ~parseRawJSON(file0).err
    /\ PatchedFile(PatchedFile(file0, log[1].call.patch), log[2].call.patch)
         # PatchedFile(PatchedFile(file0, log[2].call.patch), log[1].call.patch)
    /\ file \notin {file0,
                    PatchedFile(file0, log[1].call.patch),
                    PatchedFile(file0, log[2].call.patch)}

\* C3: PatchConfig never rejects a write because of baseHash: whenever the
\* document it read under the lock parses, it succeeds for every baseHash,
\* and what it writes is the patch merged onto that freshly read document,
\* not onto the snapshot the caller's hash came from.  (SpecFileExt: a writer
\* outside the process changes the file between the calls.)
C3_BaseHashIgnored ==
    \A p \in Procs :
        (pc[p] = "unlock" /\ call[p].op = "PatchConfig") =>
            LET existing == parseRawJSON(cfg[p].raw)
            IN  ~existing.err =>
                    /\ ret[p].err = ""
                    /\ ret[p].wrote = MarshalIndent(mergePatch(existing.val, call[p].patch))

\* A caller read the document, the file was then changed from outside, and
\* its PatchConfig with the hash of the old snapshot succeeded, writing a
\* document that differs from the patch merged onto that old snapshot.
C3_Witness ==
    \E p \in Procs :
        /\ pc[p] = "unlock"
        /\ call[p].op = "PatchConfig"
        /\ seen[p] # NoPayload
        /\ call[p].baseHash = seen[p].hash
        /\ seen[p].hash # cfg[p].hash
        /\ extWrites > 0
        /\ ret[p].err = ""
        /\ file = ret[p].wrote
        /\ ret[p].wrote # MarshalIndent(mergePatch(parseRawJSON(seen[p].raw).val,
                                                   call[p].patch))

\* Goroutine p is inside the locked body of GetConfig, PatchConfig or
\* ApplyConfig.
InBody(p) == pc[p] \in {"read", "write", "unlock"}

C7_GetConfigPure ==
    \A p \in Procs :
        (pc[p] = "unlock" /\ call[p].op = "GetConfig") =>
            /\ file = atLock[p]
            /\ ret[p].err = ""
            /\ atLock[p] = Missing =>
                  ret[p].payload = [raw |-> EmptyRaw, hash |-> hashBytes(EmptyRaw)]
            /\ atLock[p] # Missing =>
                  ret[p].payload = [raw |-> atLock[p], hash |-> hashBytes(atLock[p])]

\* GetConfig is about to return on a file that does not exist.
C7_Witness ==
    \E p \in Procs :
        /\ pc[p] = "unlock"
        /\ call[p].op = "GetConfig"
        /\ atLock[p] = Missing
        /\ file = Missing
        /\ ret[p].payload.raw = EmptyRaw

\* A document D as a map, and the document the file holds.
DocOf(raw) == parseRawJSON(raw).val

\* C9: a null patch value deletes.  When DeleteSection(k), that is
\* PatchConfig({k:null}), has written on the document transport: it
\* succeeded; the file holds mergePatch(D, {k:null}) for the document D it
\* read; that document has no key k and has every other key of D with its
\* value; and when D lacks k it is D itself.
C9_NullDeletes ==
    \A p \in Procs : \A k \in Keys :
        (pc[p] = "unlock" /\ call[p].patch = DeleteSection(k)) =>
            LET D == Fields(DocOf(cfg[p].raw))
                R == Fields(DocOf(file))
            IN  /\ ret[p].err = ""
                /\ ~parseRawJSON(file).err
                /\ DocOf(file) = mergePatch(DocOf(cfg[p].raw), DeleteSection(k))
                /\ k \notin DOMAIN R
                /\ DOMAIN R = DOMAIN D \ {k}
                /\ \A j \in DOMAIN D \ {k} : R[j] = D[j]
                /\ k \notin DOMAIN D => R = D

\* A section holding a map was deleted from a document with a second section
\* holding a map, which is still there.
C9_Witness ==
    \E p \in Procs : \E k \in Keys :
        /\ pc[p] = "unlock"
        /\ call[p].patch = DeleteSection(k)
        /\ k \in DOMAIN Fields(DocOf(cfg[p].raw))
        /\ IsMap(Fields(DocOf(cfg[p].raw))[k])
        /\ k \notin DOMAIN Fields(DocOf(file))
        /\ \E j \in DOMAIN Fields(DocOf(file)) :
              /\ IsMap(Fields(DocOf(file))[j])
              /\ Fields(DocOf(file))[j] = Fields(DocOf(cfg[p].raw))[j]

\* C6: starting from the document {}, PatchConfig({"a":{"b":1}}, h) then
\* GetConfig returns a raw document that parses to {"a":{"b":1}}, and
\* PatchConfig({"a":null}, h') then GetConfig returns one that parses to {},
\* for any hashes h and h'; every call of the scenario succeeds.
C6_EndToEnd ==
    /\ \A i \in 1..Len(ScenarioLog) : ScenarioLog[i].ret.err = ""
    /\ Len(ScenarioLog) >= 2 =>
          parseRawJSON(ScenarioLog[2].ret.payload.raw) = [err |-> FALSE, val |-> PatchAB]
    /\ Len(ScenarioLog) >= 4 =>
          parseRawJSON(ScenarioLog[4].ret.payload.raw) = [err |-> FALSE, val |-> EmptyMap]

\* The whole scenario has run with hashes that match no current document, and
\* its two reads returned {"a":{"b":1}} and {}.
C6_Witness ==
    /\ Len(ScenarioLog) = 4
    /\ ScenarioLog[1].call.baseHash = hashBytes(Text("stale"))
    /\ ScenarioLog[3].call.baseHash # ScenarioLog[2].ret.payload.hash
    /\ DocOf(ScenarioLog[2].ret.payload.raw) = PatchAB
    /\ ScenarioLog[2].ret.payload.raw # Compact(PatchAB)
    /\ DocOf(ScenarioLog[4].ret.payload.raw) = EmptyMap
    /\ file = EmptyRaw

\* C5 as claimed: once two concurrent Creates of different agents have both
\* returned successfully, both agents are in agents.list.
C5_BothAgentsPresent ==
    (/\ \A p \in Procs : pc[p] = "idle" /\ task[p] = NoTask
     /\ created = AgentIds)
    => AgentIds \subseteq AgentsInFile

(***************************************************************************)
(* WSClient: request multiplexing on one connection.  call is a sequence   *)
(* of steps of the calling goroutine (take an id, register the slot, write *)
(* the frame, wait in the select, unregister and return); readPump is one  *)
(* goroutine reading frames and handing each response to the slot          *)
(* registered under its id.  Request id n stands for the string "tf-n".    *)
(* The sections under WSClient.mu do not block, so each is one step.       *)
(***************************************************************************)
WsMethods == {"config.get", "config.patch"}

\* What the peer answers to a request: it depends on the request alone.
ReplyPayload(req) == <<"reply", req.method, req.params>>

ResFrame(req) ==
    [type |-> "res", id |-> req.id, method |-> "", params |-> NoArg,
     ok |-> TRUE, payload |-> ReplyPayload(req), event |-> ""]

\* A faulty router that hands a response to the oldest waiting request.
RouteOldest(frame) ==
    IF pending # {} THEN CHOOSE id \in pending : \A j \in pending : id <= j ELSE 0

\* A faulty router that hands a response without a slot to the newest
\* waiting request.
RouteNewest(frame) ==
    IF frame.id \in pending THEN frame.id
    ELSE IF pending # {} THEN CHOOSE id \in pending : \A j \in pending : j <= id
    ELSE 0

\* readPump's lookup: the slot registered under the frame's id, or none (0).
RouteTo(frame) == IF frame.id \in pending THEN frame.id ELSE 0

\* A faulty first statement that reads the counter and does not advance it.
WsCallOfStale(p, m) ==
    /\ wpc[p] = "idle"
    /\ wbudget > 0
    /\ wbudget' = wbudget - 1
    /\ nextID' = nextID
    /\ wcall' = [wcall EXCEPT ![p] =
                   [type |-> "req", id |-> nextID + 1, method |-> m,
                    params |-> <<"from", p>>, ok |-> FALSE, payload |-> NoArg,
                    event |-> ""]]
    /\ wret' = [wret EXCEPT ![p] = NoWsRet]
    /\ wpc' = [wpc EXCEPT ![p] = "register"]
    /\ sent' = [sent EXCEPT ![p] = 0]
    /\ UNCHANGED <<pending, chan, done, conn, outbound, inbound, pump, answered>>
    /\ UNCHANGED notWsVars

\* call(ctx, m, params), first statement: the next request id.
WsCallOf(p, m) ==
    /\ wpc[p] = "idle"
    /\ wbudget > 0
    /\ wbudget' = wbudget - 1
    /\ nextID' = nextID + 1
    /\ wcall' = [wcall EXCEPT ![p] =
                   [type |-> "req", id |-> nextID + 1, method |-> m,
                    params |-> <<"from", p>>, ok |-> FALSE, payload |-> NoArg,
                    event |-> ""]]
    /\ wret' = [wret EXCEPT ![p] = NoWsRet]
    /\ wpc' = [wpc EXCEPT ![p] = "register"]
    /\ sent' = [sent EXCEPT ![p] = 0]
    /\ UNCHANGED <<pending, chan, done, conn, outbound, inbound, pump, answered>>
    /\ UNCHANGED notWsVars

\* A caller calls GetConfig or PatchConfig.
WsCall(p) == \E m \in WsMethods : WsCallOf(p, m)

\* call: ch := make(chan wsFrame, 1); c.pending[id] = ch.
WsRegister(p) ==
    /\ wpc[p] = "register"
    /\ pending' = pending \cup {wcall[p].id}
    /\ chan' = (wcall[p].id :> <<>>) @@ chan
    /\ wpc' = [wpc EXCEPT ![p] = "write"]
    /\ UNCHANGED <<nextID, done, conn, outbound, inbound, pump, wcall, wret,
                   wbudget, answered, sent>>
    /\ UNCHANGED notWsVars

\* A faulty write whose lock is kept by a call until its response has come.
WsWriteHoldsLock(p) ==
    /\ wpc[p] = "write"
    /\ \A q \in WsProcs \ {p} : wpc[q] # "select"
    /\ IF conn = "open"
       THEN /\ outbound' = Append(outbound, wcall[p])
            /\ sent' = [sent EXCEPT ![p] = @ + 1]
            /\ wpc' = [wpc EXCEPT ![p] = "select"]
            /\ wret' = wret
       ELSE /\ outbound' = outbound
            /\ sent' = sent
            /\ wpc' = [wpc EXCEPT ![p] = "cleanup"]
            /\ wret' = [wret EXCEPT ![p] = [kind |-> "ws write", frame |-> NoFrame]]
    /\ UNCHANGED <<nextID, pending, chan, done, conn, inbound, pump, wcall,
                   wbudget, answered>>
    /\ UNCHANGED notWsVars

\* A faulty write that puts its frame before the frames already written.
WsWriteAhead(p) ==
    /\ wpc[p] = "write"
    /\ IF conn = "open"
       THEN /\ outbound' = <<wcall[p]>> \o outbound
            /\ sent' = [sent EXCEPT ![p] = @ + 1]
            /\ wpc' = [wpc EXCEPT ![p] = "select"]
            /\ wret' = wret
       ELSE /\ outbound' = outbound
            /\ sent' = sent
            /\ wpc' = [wpc EXCEPT ![p] = "cleanup"]
            /\ wret' = [wret EXCEPT ![p] = [kind |-> "ws write", frame |-> NoFrame]]
    /\ UNCHANGED <<nextID, pending, chan, done, conn, inbound, pump, wcall,
                   wbudget, answered>>
    /\ UNCHANGED notWsVars

\* call: c.conn.WriteMessage under c.mu; it fails on a closed connection.
WsWrite(p) ==
    /\ wpc[p] = "write"
    /\ IF conn = "open"
       THEN /\ outbound' = Append(outbound, wcall[p])
            /\ sent' = [sent EXCEPT ![p] = @ + 1]
            /\ wpc' = [wpc EXCEPT ![p] = "select"]
            /\ wret' = wret
       ELSE /\ outbound' = outbound
            /\ sent' = sent
            /\ wpc' = [wpc EXCEPT ![p] = "cleanup"]
            /\ wret' = [wret EXCEPT ![p] = [kind |-> "ws write", frame |-> NoFrame]]
    /\ UNCHANGED <<nextID, pending, chan, done, conn, inbound, pump, wcall,
                   wbudget, answered>>
    /\ UNCHANGED notWsVars

\* call, select: case resp := <-ch.
WsReceive(p) ==
    /\ wpc[p] = "select"
    /\ Len(chan[wcall[p].id]) > 0
    /\ wret' = [wret EXCEPT ![p] = [kind |-> "res", frame |-> Head(chan[wcall[p].id])]]
    /\ chan' = [chan EXCEPT ![wcall[p].id] = Tail(@)]
    /\ wpc' = [wpc EXCEPT ![p] = "cleanup"]
    /\ UNCHANGED <<nextID, pending, done, conn, outbound, inbound, pump, wcall,
                   wbudget, answered, sent>>
    /\ UNCHANGED notWsVars

\* call, select: case <-ctx.Done(); the caller's deadline may pass any time.
WsDeadline(p) ==
    /\ wpc[p] = "select"
    /\ wret' = [wret EXCEPT ![p] = [kind |-> "context deadline exceeded",
                                    frame |-> NoFrame]]
    /\ wpc' = [wpc EXCEPT ![p] = "cleanup"]
    /\ UNCHANGED <<nextID, pending, chan, done, conn, outbound, inbound, pump,
                   wcall, wbudget, answered, sent>>
    /\ UNCHANGED notWsVars

\* call, select: case <-c.done.
WsClosed(p) ==
    /\ wpc[p] = "select"
    /\ done
    /\ wret' = [wret EXCEPT ![p] = [kind |-> "connection closed", frame |-> NoFrame]]
    /\ wpc' = [wpc EXCEPT ![p] = "cleanup"]
    /\ UNCHANGED <<nextID, pending, chan, done, conn, outbound, inbound, pump,
                   wcall, wbudget, answered, sent>>
    /\ UNCHANGED notWsVars

\* A faulty return that leaves the slot of a timed-out call in c.pending.
WsReturnKeepsSlot(p) ==
    /\ wpc[p] = "cleanup"
    /\ pending' = IF wret[p].kind = "context deadline exceeded"
                  THEN pending ELSE pending \ {wcall[p].id}
    /\ wpc' = [wpc EXCEPT ![p] = "idle"]
    /\ UNCHANGED <<nextID, chan, done, conn, outbound, inbound, pump, wcall,
                   wret, wbudget, answered, sent>>
    /\ UNCHANGED notWsVars

\* A faulty return that sends the request of a failed call once more.
WsReturnRetries(p) ==
    /\ wpc[p] = "cleanup"
    /\ pending' = pending \ {wcall[p].id}
    /\ IF sent[p] < 2 /\ (wret[p].kind # "res" \/ ~wret[p].frame.ok)
       THEN /\ nextID' = nextID + 1
            /\ wcall' = [wcall EXCEPT ![p].id = nextID + 1]
            /\ wpc' = [wpc EXCEPT ![p] = "register"]
       ELSE /\ wpc' = [wpc EXCEPT ![p] = "idle"]
            /\ UNCHANGED <<nextID, wcall>>
    /\ UNCHANGED <<chan, done, conn, outbound, inbound, pump, wret, wbudget,
                   answered, sent>>
    /\ UNCHANGED notWsVars

\* call, deferred: delete(c.pending, id); then the return.
WsReturn(p) ==
    /\ wpc[p] = "cleanup"
    /\ pending' = pending \ {wcall[p].id}
    /\ wpc' = [wpc EXCEPT ![p] = "idle"]
    /\ UNCHANGED <<nextID, chan, done, conn, outbound, inbound, pump, wcall,
                   wret, wbudget, answered, sent>>
    /\ UNCHANGED notWsVars

\* readPump: ReadMessage returned a frame.  A response whose id has a slot
\* is taken to that slot; any other frame is dropped.
PumpRead ==
    /\ pump.pc = "read"
    /\ conn = "open"
    /\ Len(inbound) > 0
    /\ inbound' = Tail(inbound)
    /\ LET frame == Head(inbound)
       IN  IF frame.type = "res" /\ frame.id # 0 /\ RouteTo(frame) # 0
           THEN pump' = [pc |-> "send", frame |-> frame, to |-> RouteTo(frame)]
           ELSE pump' = pump
    /\ UNCHANGED <<nextID, pending, chan, done, conn, outbound, wpc, wcall, wret,
                   wbudget, answered, sent>>
    /\ UNCHANGED notWsVars

\* readPump: ch <- frame, which waits while the slot is full.
PumpSend ==
    /\ pump.pc = "send"
    /\ Len(chan[pump.to]) = 0
    /\ chan' = [chan EXCEPT ![pump.to] = <<pump.frame>>]
    /\ pump' = [pc |-> "read", frame |-> NoFrame, to |-> 0]
    /\ UNCHANGED <<nextID, pending, done, conn, outbound, inbound, wpc, wcall,
                   wret, wbudget, answered, sent>>
    /\ UNCHANGED notWsVars

\* A faulty readPump that ends without closing c.done.
PumpExitSilent ==
    /\ pump.pc = "read"
    /\ conn = "closed"
    /\ pump' = [pc |-> "exit", frame |-> NoFrame, to |-> 0]
    /\ UNCHANGED <<nextID, pending, chan, done, conn, outbound, inbound, wpc, wcall,
                   wret, wbudget, answered, sent>>
    /\ UNCHANGED notWsVars

\* A faulty readPump that, its read having failed, signals c.done and then
\* connects again and goes on reading.
PumpRestarts ==
    /\ pump.pc = "read"
    /\ conn = "closed"
    /\ done' = TRUE
    /\ conn' = "open"
    /\ pump' = [pc |-> "read", frame |-> NoFrame, to |-> 0]
    /\ UNCHANGED <<nextID, pending, chan, outbound, inbound, wpc, wcall,
                   wret, wbudget, answered, sent>>
    /\ UNCHANGED notWsVars

\* readPump: ReadMessage failed on the closed connection; the deferred
\* close(c.done) runs and the loop ends.  Frames not read yet are lost.
PumpExit ==
    /\ pump.pc = "read"
    /\ conn = "closed"
    /\ done' = TRUE
    /\ pump' = [pc |-> "exit", frame |-> NoFrame, to |-> 0]
    /\ UNCHANGED <<nextID, pending, chan, conn, outbound, inbound, wpc, wcall,
                   wret, wbudget, answered, sent>>
    /\ UNCHANGED notWsVars

\* The peer answers a request it has received and not answered yet.
PeerAnswer ==
    /\ conn = "open"
    /\ \E i \in 1..Len(outbound) :
          /\ \A j \in 1..Len(answered) : answered[j] # outbound[i].id
          /\ inbound' = Append(inbound, ResFrame(outbound[i]))
          /\ answered' = Append(answered, outbound[i].id)
    /\ UNCHANGED <<nextID, pending, chan, done, conn, outbound, pump, wpc, wcall,
                   wret, wbudget, sent>>
    /\ UNCHANGED notWsVars

\* The connection goes down: the peer restarts, or Close is called.
ConnDown ==
    /\ conn = "open"
    /\ conn' = "closed"
    /\ UNCHANGED <<nextID, pending, chan, done, outbound, inbound, pump, wpc,
                   wcall, wret, wbudget, answered, sent>>
    /\ UNCHANGED notWsVars

WsInit ==
    /\ MergeIdle
    /\ FileStart(Missing, 0)
    /\ WsStart(MaxWsCalls)
    /\ DialIdle
    /\ SectIdle
    /\ ResIdle

WsCallSteps ==
    \E p \in WsProcs :
        \/ WsCall(p)
        \/ WsRegister(p)
        \/ WsWrite(p)
        \/ WsReceive(p)
        \/ WsDeadline(p)
        \/ WsClosed(p)
        \/ WsReturn(p)

WsNext == WsCallSteps \/ PumpRead \/ PumpSend \/ PumpExit \/ PeerAnswer \/ ConnDown

\* One connected WSClient whose peer answers every request at most once.
SpecWS == WsInit /\ [][WsNext]_vars

(***************************************************************************)
(* Properties of the WebSocket transport.                                  *)
(***************************************************************************)
WasAnswered(id) == \E j \in 1..Len(answered) : answered[j] = id

\* The response to request id is still on its way to the caller.
OnItsWay(id) ==
    \/ \E i \in 1..Len(inbound) : inbound[i].type = "res" /\ inbound[i].id = id
    \/ pump.pc = "send" /\ pump.frame.id = id /\ pump.to = id
    \/ Len(chan[id]) > 0 /\ chan[id][1].id = id

\* C2: with several calls outstanding at once on one connection and the peer
\* answering each request id once, in any order, a call that returns a frame
\* returns the response to its own request (same id, the answer to what it
\* sent); no slot ever holds a frame of another id; and the response to a
\* call that is still waiting is never lost or given to another call.
C2_OwnResponse ==
    /\ \A p \in WsProcs :
          wret[p].kind = "res" =>
              /\ wret[p].frame.id = wcall[p].id
              /\ wret[p].frame.payload = ReplyPayload(wcall[p])
    /\ \A id \in DOMAIN chan :
          \A i \in 1..Len(chan[id]) : chan[id][i].id = id
    /\ \A p \in WsProcs :
          (wpc[p] = "select" /\ WasAnswered(wcall[p].id)) => OnItsWay(wcall[p].id)

\* Two calls were outstanding together, the peer answered the later request
\* first, and both callers hold the response to their own request.
C2_Witness ==
    /\ \A p \in WsProcs : wpc[p] = "cleanup" /\ wret[p].kind = "res"
    /\ wcall[1].id # wcall[2].id
    /\ Len(answered) = 2
    /\ answered[1] > answered[2]
    /\ \A p \in WsProcs : wret[p].frame.id = wcall[p].id

(***************************************************************************)
(* Further properties of the merge engine, checked under SpecMerge.        *)
(***************************************************************************)
\* Wherever d and p both have key k, the patch value is not null and the two
\* values are not both maps, r holds exactly the patch value at k; where they
\* are both maps the same is asked one level down.
RECURSIVE Replaced(_, _, _)
Replaced(d, p, r) ==
    \A k \in DOMAIN Fields(d) \cap DOMAIN Fields(p) :
        LET old == Fields(d)[k]
            new == Fields(p)[k]
        IN  /\ (new # Nil /\ ~(IsMap(old) /\ IsMap(new))) =>
                  k \in DOMAIN Fields(r) /\ Fields(r)[k] = new
            /\ (IsMap(old) /\ IsMap(new)) =>
                  k \in DOMAIN Fields(r) /\ Replaced(old, new, Fields(r)[k])

\* C11: type replacement is total: where the patch value at a key and the
\* value the document has there are not both maps (a map over a number or a
\* list, a number or a list over a map, a number over a number), the merged
\* document holds exactly the patch value at that key and nothing of the old
\* value.  (A null patch value is the deletion of the key.)
C11_TypeReplacement ==
    Len(mOut) >= 1 => (IsMap(mOut[1]) /\ Replaced(mTarget, mPatch, mOut[1]))

\* One merge replaced a number by a map and a map by a list.
C11_Witness ==
    /\ Len(mOut) >= 1
    /\ mTarget = Map("a" :> Num(1) @@ "b" :> Map("a" :> Num(1)))
    /\ mPatch = Map("a" :> Map("b" :> Num(1)) @@ "b" :> List(<<Num(1)>>))
    /\ mOut[1] = mPatch

(***************************************************************************)
(* The nonexistent and the empty document side by side: a patch P is       *)
(* drawn; P is merged onto nil or onto {}, and PatchConfig(P) is called on *)
(* a FileClient whose file is missing or holds "{}".                       *)
(***************************************************************************)
\* The two documents with nothing in them, as targets and as files.
EmptyTargets == {Nil, EmptyMap}

EmptyFiles == {Missing, EmptyRaw}

\* A caller passes the drawn patch to PatchConfig.
CallPatchDrawn(p) ==
    /\ CallerFree(p)
    /\ Begin(p, [op |-> "PatchConfig", patch |-> mPatch, raw |-> NoArg,
                 baseHash |-> NoHash], "lock")

EmptyInit ==
    /\ mTarget \in EmptyTargets
    /\ mPatch \in Docs2
    /\ mOut = <<>>
    /\ WsStart(0)
    /\ DialIdle
    /\ SectIdle
    /\ ResIdle
    /\ \E f \in EmptyFiles : FileStart(f, MaxCalls)

EmptyNext ==
    \/ MergeApply
    \/ \E p \in Procs :
          \/ CallPatchDrawn(p)
          \/ Lock(p)
          \/ getConfigLocked(p)
          \/ PatchWrite(p)
          \/ Unlock(p)

SpecEmpty == EmptyInit /\ [][EmptyNext]_vars

\* C12: a nonexistent document behaves as an empty one.  For every patch P,
\* mergePatch(nil, P) is mergePatch({}, P); and a PatchConfig(P) that found
\* the file missing, or found it holding {}, succeeds and writes one and the
\* same document, the indented text of that merge.
C12_MissingIsEmpty ==
    /\ Len(mOut) >= 1 => mOut[1] = mergePatch(EmptyMap, mPatch)
    /\ \A p \in Procs :
          (pc[p] = "unlock" /\ atLock[p] \in EmptyFiles) =>
              /\ ret[p].err = ""
              /\ ret[p].wrote = MarshalIndent(mergePatch(EmptyMap, call[p].patch))
              /\ file = ret[p].wrote
              /\ Len(mOut) >= 1 => parseRawJSON(file).val = mOut[1]

\* A patch that sets a nested value was merged onto nil, and PatchConfig
\* wrote the same document although there was no file.
C12_Witness ==
    /\ mTarget = Nil
    /\ mPatch = PatchAB
    /\ Len(mOut) = 1
    /\ file0 = Missing
    /\ \E p \in Procs :
          /\ pc[p] = "unlock"
          /\ atLock[p] = Missing
          /\ file = MarshalIndent(mOut[1])
          /\ mOut[1] = PatchAB

(***************************************************************************)
(* Further properties of the document transport.                           *)
(***************************************************************************)
HealthError == "health check not available in file mode"

\* C13: Health on the document transport always fails with the error "not
\* available in file mode", whatever the file holds (nothing, an empty, a
\* populated or an unparsable document) and whoever holds the mutex, hands
\* out no payload, and neither entering nor leaving it changes the file.
C13_HealthUnsupported ==
    [][\A p \in Procs :
          /\ (pc[p] = "idle" /\ pc'[p] = "health") => file' = file
          /\ (pc[p] = "health" /\ pc'[p] = "idle") =>
                /\ ret'[p].err = HealthError
                /\ ret'[p].payload = NoPayload
                /\ ret'[p].wrote = NoArg
                /\ file' = file
                /\ log'[Len(log')].call.op = "Health"
                /\ log'[Len(log')].ret.err = HealthError]_vars

\* Health has failed on a populated document while the other goroutine held
\* the mutex in the middle of a PatchConfig.
C13_Witness ==
    /\ Len(log) = 1
    /\ log[1].call.op = "Health"
    /\ log[1].ret.err = HealthError
    /\ IsMap(parseRawJSON(file).val)
    /\ file \notin {Missing, EmptyRaw}
    /\ \E q \in Procs : mu = q /\ call[q].op = "PatchConfig" /\ pc[q] = "write"

(***************************************************************************)
(* Progress of the WebSocket transport.  A goroutine that can take a step  *)
(* takes it: a select with a ready channel case proceeds, ReadMessage on a *)
(* closed connection returns its error, deferred functions run.  Nothing   *)
(* obliges a caller to call, the peer to answer, the connection to fail or *)
(* a deadline to pass.                                                     *)
(***************************************************************************)
WsFairness ==
    /\ \A p \in WsProcs :
          /\ WF_vars(WsRegister(p))
          /\ WF_vars(WsWrite(p))
          /\ WF_vars(WsReceive(p) \/ WsClosed(p))
          /\ WF_vars(WsReturn(p))
    /\ WF_vars(PumpRead)
    /\ WF_vars(PumpSend)
    /\ WF_vars(PumpExit)

\* GetConfig's call:  c.call(ctx, "config.get", ...).
WsGetConfig(p) == WsCallOf(p, "config.get")

LiveCallSteps ==
    \E p \in WsProcs :
        \/ WsGetConfig(p)
        \/ WsRegister(p)
        \/ WsWrite(p)
        \/ WsReceive(p)
        \/ WsDeadline(p)
        \/ WsClosed(p)
        \/ WsReturn(p)

LiveNext == LiveCallSteps \/ PumpRead \/ PumpSend \/ PumpExit \/ PeerAnswer \/ ConnDown

\* One connected WSClient whose callers read the configuration, under the
\* progress conditions above.
SpecWSLive == WsInit /\ [][LiveNext]_vars /\ WsFairness

DeadlineError == "context deadline exceeded"

\* The frames of request id on the wire towards the peer.
Written(id) == {i \in 1..Len(outbound) : outbound[i].id = id}

\* C15: a call whose deadline passes before its response returns the context
\* error and no frame; when it has returned its slot is gone from c.pending;
\* and its request is not retracted: the one frame it wrote stays written,
\* nothing is ever taken back from the connection, and only requests of
\* calls are ever written (there is no cancel frame).
C15_DeadlineCleansUp ==
    /\ [](\A p \in WsProcs :
            (wpc[p] = "idle" /\ wret[p].kind = DeadlineError) =>
                /\ wret[p].frame = NoFrame
                /\ wcall[p].id \notin pending
                /\ \E i \in Written(wcall[p].id) :
                      Written(wcall[p].id) = {i} /\ outbound[i] = wcall[p])
    /\ [](\A i \in 1..Len(outbound) :
            outbound[i].type = "req" /\ outbound[i].method \in WsMethods)
    /\ [][/\ Len(outbound') >= Len(outbound)
          /\ SubSeq(outbound', 1, Len(outbound)) = outbound]_vars

\* A call gave up on its deadline and returned; the peer answered its request
\* all the same, and the receiver loop, finding no slot, dropped the answer.
C15_Witness ==
    \E p \in WsProcs :
        /\ wpc[p] = "idle"
        /\ wret[p].kind = DeadlineError
        /\ WasAnswered(wcall[p].id)
        /\ inbound = <<>>
        /\ pump.pc = "read"
        /\ chan[wcall[p].id] = <<>>
        /\ conn = "open"

(***************************************************************************)
(* NewWSClient: the retry loop around dialAndHandshake.  Each attempt      *)
(* dials, starts readPump, waits for the challenge, makes the connect call *)
(* and judges its response.  What the network and the gateway do is drawn  *)
(* freely: a dial succeeds or fails, a challenge comes or the 5 seconds    *)
(* pass, the connect call returns any response or an error, and the        *)
(* caller's context may end at any moment.                                 *)
(***************************************************************************)
maxRetries == 5

\* The first backoff and its cap, in seconds.
InitialBackoff == 1

BackoffCap == 10

\* A faulty backoff that doubles without the cap.
NextBackoffUncapped(b) == b * 2

\* backoff = backoff * 2, cut to 10 seconds.
NextBackoff(b) == IF b * 2 > BackoffCap THEN BackoffCap ELSE b * 2

\* The payloads a connect.challenge event may carry: a nonce, an empty
\* nonce, a nonce that is not a string, no nonce, and no map at all.
ChallengePayloads ==
    {Map("nonce" :> Str("n1")), Map("nonce" :> Str("")), Map("nonce" :> Num(1)),
     EmptyMap, Nil}

\* How the wait for connect.challenge can end in going on, and how the
\* connect call can end: a response with ok true, with ok false, without
\* ok, or an error.
ChallengeEnds == {"event", "timeout"}

ConnectEnds == {"ok", "refused", "blank", "error"}

\* How far the handshake got when the connect call ends in an error: no
\* key could be generated, the request was not written, or it was written.
ConnectErrors == {"keygen", "unwritten", "written"}

\* A faulty judgement that takes every response without ok = false as a yes.
AffirmativeLax(connect) == connect \in {"ok", "blank"}

\* handshake: the call returned no error and resp.OK is set and true.
Affirmative(connect) == connect = "ok"

\* The for statement: its condition, and the select before a retry.
DialLoop ==
    /\ dpc = "loop"
    /\ IF attempt > maxRetries
       THEN /\ dpc' = "returned"
            /\ result' = "error"
       ELSE /\ dpc' = IF attempt > 0 THEN "backoff" ELSE "dial"
            /\ result' = result
    /\ UNCHANGED <<attempt, backoff, lastErr, ctxDone, sess, waits, dials, tries>>
    /\ UNCHANGED notDialVars

\* case <-time.After(backoff).
BackoffElapsed ==
    /\ dpc = "backoff"
    /\ waits' = Append(waits, backoff)
    /\ backoff' = NextBackoff(backoff)
    /\ dpc' = "dial"
    /\ UNCHANGED <<attempt, lastErr, ctxDone, sess, result, dials, tries>>
    /\ UNCHANGED notDialVars

\* case <-ctx.Done(): "ws connect cancelled after %d attempts".
BackoffCancelled ==
    /\ dpc = "backoff"
    /\ ctxDone
    /\ dpc' = "returned"
    /\ result' = "cancelled"
    /\ UNCHANGED <<attempt, backoff, lastErr, ctxDone, sess, waits, dials, tries>>
    /\ UNCHANGED notDialVars

\* An attempt ends in failure: lastErr = err, and attempt++.
AttemptFailed(err) ==
    /\ lastErr' = err
    /\ tries' = Append(tries, err)
    /\ attempt' = attempt + 1
    /\ dpc' = "loop"

\* dialAndHandshake: DialContext, then the new WSClient and go c.readPump().
Dial ==
    /\ dpc = "dial"
    /\ dials' = dials + 1
    /\ \E ok \in (IF ctxDone THEN {FALSE} ELSE BOOLEAN) :
          IF ok
          THEN /\ sess' = NewSession
               /\ dpc' = "handshake"
               /\ UNCHANGED <<attempt, lastErr, tries>>
          ELSE /\ sess' = NoSession
               /\ AttemptFailed("ws dial")
    /\ UNCHANGED <<backoff, ctxDone, result, waits>>
    /\ UNCHANGED notDialVars

\* A faulty routing whose send waits for room in c.challenge: with the slot
\* full the receiver loop stops there.
ChallengeArrivesBlocking ==
    /\ dpc \in {"handshake", "challenge", "connect"}
    /\ sess.conn = "open"
    /\ sess.pump
    /\ \E payload \in ChallengePayloads :
          IF dpc = "challenge"
          THEN /\ sess' = [sess EXCEPT !.challenge = "event", !.got = payload,
                                       !.nonce = NonceOf(payload)]
               /\ dpc' = "connect"
          ELSE IF sess.slot = NoArg
          THEN /\ sess.challenge # "event"
               /\ sess' = [sess EXCEPT !.slot = payload]
               /\ dpc' = dpc
          ELSE /\ dpc = "handshake"
               /\ sess' = [sess EXCEPT !.pump = FALSE]
               /\ dpc' = dpc
    /\ UNCHANGED <<attempt, backoff, lastErr, ctxDone, result, waits, dials, tries>>
    /\ UNCHANGED notDialVars

\* The gateway pushes connect.challenge and readPump routes it.  If
\* handshake is waiting in its select it receives the event at once; if
\* not, the event goes into the one-place c.challenge, and when that is
\* full the default case discards it.  (After the wait only the first
\* event is followed; of those discarded, the first during the wait.)
ChallengeArrives ==
    /\ dpc \in {"handshake", "challenge", "connect"}
    /\ sess.conn = "open"
    /\ sess.pump
    /\ \E payload \in ChallengePayloads :
          IF dpc = "challenge"
          THEN /\ sess' = [sess EXCEPT !.challenge = "event", !.got = payload,
                                       !.nonce = NonceOf(payload)]
               /\ dpc' = "connect"
          ELSE IF sess.slot = NoArg
          THEN /\ sess.challenge # "event"
               /\ sess' = [sess EXCEPT !.slot = payload]
               /\ dpc' = dpc
          ELSE /\ dpc = "handshake"
               /\ sess.lost = NoArg
               /\ sess' = [sess EXCEPT !.lost = <<NonceOf(payload)>>]
               /\ dpc' = dpc
    /\ UNCHANGED <<attempt, backoff, lastErr, ctxDone, result, waits, dials, tries>>
    /\ UNCHANGED notDialVars

\* handshake reaches its select: it takes a challenge that is already
\* there; with nothing ready it waits.  (That the context has ended is the
\* case of ChallengeCancelled; with both ready either is taken.)
ChallengeWait ==
    /\ dpc = "handshake"
    /\ IF sess.slot # NoArg
       THEN /\ sess' = [sess EXCEPT !.slot = NoArg, !.challenge = "event",
                                    !.got = sess.slot, !.nonce = NonceOf(sess.slot)]
            /\ dpc' = "connect"
       ELSE /\ ~ctxDone
            /\ sess' = sess
            /\ dpc' = "challenge"
    /\ UNCHANGED <<attempt, backoff, lastErr, ctxDone, result, waits, dials, tries>>
    /\ UNCHANGED notDialVars

\* handshake, waiting in its select: case <-time.After(5 * time.Second).
ChallengeTimeout ==
    /\ dpc = "challenge"
    /\ sess' = [sess EXCEPT !.challenge = "timeout"]
    /\ dpc' = "connect"
    /\ UNCHANGED <<attempt, backoff, lastErr, ctxDone, result, waits, dials, tries>>
    /\ UNCHANGED notDialVars

\* A faulty select that goes on to the connect call when the context ends.
ChallengeCancelledGoesOn ==
    /\ \/ dpc = "handshake" /\ ctxDone /\ ctxDone' = ctxDone
       \/ dpc = "challenge" /\ ~ctxDone /\ ctxDone' = TRUE
    /\ sess' = [sess EXCEPT !.challenge = "cancelled"]
    /\ dpc' = "connect"
    /\ UNCHANGED <<attempt, lastErr, tries>>
    /\ UNCHANGED <<backoff, result, waits, dials>>
    /\ UNCHANGED notDialVars

\* handshake, select: case <-ctx.Done(), taken when the select is reached
\* with the context ended, or when the context ends while handshake waits
\* (the waiting goroutine is woken with that case).  dialAndHandshake
\* closes the connection and returns the error.
ChallengeCancelled ==
    /\ \/ dpc = "handshake" /\ ctxDone /\ ctxDone' = ctxDone
       \/ dpc = "challenge" /\ ~ctxDone /\ ctxDone' = TRUE
    /\ sess' = Dropped([sess EXCEPT !.challenge = "cancelled"])
    /\ AttemptFailed("ws handshake")
    /\ UNCHANGED <<backoff, result, waits, dials>>
    /\ UNCHANGED notDialVars

\* A faulty key generation that keeps one keypair for the process.
GenerateKeyOnce == IF dials = 0 THEN 0 ELSE 1

\* ed25519.GenerateKey(rand.Reader): a keypair never generated before.  A
\* handshake generates one and every attempt dials once, so the key of the
\* attempt that made the n-th dial is named n.
GenerateKey == dials

\* The rest of handshake up to the return of c.call(ctx, "connect", params):
\* a new keypair, the signed payload and the parameters, and the call, which
\* takes request id 1, registers its slot, writes the request unless it
\* fails before, and removes the slot when it returns.
Connect ==
    /\ dpc = "connect"
    /\ \E o \in ConnectEnds, how \in ConnectErrors :
          /\ o # "error" => how = "written"
          /\ IF how = "keygen"
             THEN sess' = [sess EXCEPT !.connect = o]
             ELSE sess' = [sess EXCEPT
                      !.key = GenerateKey, !.nextID = sess.nextID + 1,
                      !.wrote = IF how = "written"
                                THEN Append(@, ConnectRequest(GenerateKey, sess.nonce))
                                ELSE @,
                      !.connect = o]
    /\ dpc' = "verdict"
    /\ UNCHANGED <<attempt, backoff, lastErr, ctxDone, result, waits, dials, tries>>
    /\ UNCHANGED notDialVars

\* handshake judges the response; dialAndHandshake returns the client with
\* connected = true, or closes the connection and returns the error.
Verdict ==
    /\ dpc = "verdict"
    /\ IF Affirmative(sess.connect)
       THEN /\ sess' = [sess EXCEPT !.connected = TRUE]
            /\ result' = "client"
            /\ tries' = Append(tries, "client")
            /\ dpc' = "returned"
            /\ UNCHANGED <<attempt, lastErr>>
       ELSE /\ sess' = Dropped(sess)
            /\ AttemptFailed("ws handshake")
            /\ result' = result
    /\ UNCHANGED <<backoff, ctxDone, waits, dials>>
    /\ UNCHANGED notDialVars

\* The caller's context is cancelled or its deadline passes.
CtxEnds ==
    /\ dpc \notin {"returned", "challenge"}
    /\ ~ctxDone
    /\ ctxDone' = TRUE
    /\ UNCHANGED <<dpc, attempt, backoff, lastErr, sess, result, waits, dials, tries>>
    /\ UNCHANGED notDialVars

DialInit ==
    /\ MergeIdle
    /\ FileStart(Missing, 0)
    /\ WsStart(0)
    /\ SectIdle
    /\ ResIdle
    /\ dpc = "loop"
    /\ attempt = 0
    /\ backoff = InitialBackoff
    /\ lastErr = ""
    /\ ctxDone = FALSE
    /\ sess = NoSession
    /\ result = "none"
    /\ waits = <<>>
    /\ dials = 0
    /\ tries = <<>>

DialNext ==
    \/ DialLoop
    \/ BackoffElapsed
    \/ BackoffCancelled
    \/ Dial
    \/ ChallengeArrives
    \/ ChallengeWait
    \/ ChallengeTimeout
    \/ ChallengeCancelled
    \/ Connect
    \/ Verdict
    \/ CtxEnds

\* One call of NewWSClient.
SpecDial == DialInit /\ [][DialNext]_vars

(***************************************************************************)
(* Properties of connection establishment, checked under SpecDial.         *)
(***************************************************************************)
\* C16: NewWSClient dials at most 6 times (1 + 5 retries); the wait before
\* retry k is min(2^(k-1), 10) seconds, that is 1, 2, 4, 8, 10; it returns
\* the client of the first attempt that succeeds, dialing no more; and when
\* the 6th attempt has failed it returns that attempt's error without
\* dialing again.
C16_DialAttempts ==
    /\ dials <= 6
    /\ Len(waits) <= 5
    /\ \A k \in 1..Len(waits) : waits[k] = IF 2^(k - 1) < 10 THEN 2^(k - 1) ELSE 10
    /\ Len(waits) \in {dials - 1, dials}
    /\ \A i \in 1..Len(tries) : tries[i] = "client" => (i = Len(tries) /\ result = "client")
    /\ result = "client" =>
          /\ dpc = "returned"
          /\ tries[Len(tries)] = "client"
          /\ dials = Len(tries)
          /\ Len(waits) = dials - 1
    /\ result = "error" =>
          /\ dpc = "returned"
          /\ dials = 6
          /\ Len(tries) = 6
          /\ lastErr = tries[6]
          /\ waits = <<1, 2, 4, 8, 10>>

\* Six attempts failed, the last in the handshake: NewWSClient has waited 1,
\* 2, 4, 8 and 10 seconds and has returned the last error.
C16_Witness ==
    /\ dpc = "returned"
    /\ result = "error"
    /\ dials = 6
    /\ waits = <<1, 2, 4, 8, 10>>
    /\ lastErr = "ws handshake"
    /\ ~ctxDone

\* C17: the handshake fails closed.  When the connect call ends in an error
\* or in a response whose ok is missing or false, or the wait for the
\* challenge is cancelled, dialAndHandshake closes the connection and hands
\* out no client; the session is marked connected, and NewWSClient returns a
\* client, only when the connect response had ok = true, and then the
\* connection is open.
C17_FailsClosed ==
    /\ sess.connected => (sess.connect = "ok" /\ sess.conn = "open")
    /\ (result = "client") <=> sess.connected
    /\ (sess.connect \in {"refused", "blank", "error"} /\ dpc # "verdict") =>
          (sess.conn = "closed" /\ ~sess.connected)
    /\ sess.challenge = "cancelled" => (sess.conn = "closed" /\ ~sess.connected)
    /\ \A i \in 1..Len(tries) :
          (tries[i] = "client") => (i = Len(tries) /\ sess.connect = "ok")

\* An attempt whose connect response carried no ok has ended: its connection
\* is closed, no client was returned, and the loop goes on.
C17_Witness ==
    /\ sess.connect = "blank"
    /\ sess.conn = "closed"
    /\ ~sess.connected
    /\ dpc = "loop"
    /\ result = "none"
    /\ tries = <<"ws handshake">>

(***************************************************************************)
(* The writes of the WebSocket transport: PatchConfig and ApplyConfig each *)
(* make one call, "config.patch" or "config.apply", and turn a response    *)
(* that is not ok into an error.  The gateway may accept or reject.        *)
(***************************************************************************)
WriteMethods == {"config.patch", "config.apply"}

\* The callers: goroutine 1 patches the configuration, the others replace it.
WsPatchConfig(p) ==
    /\ p = 1
    /\ WsCallOf(p, "config.patch")

WsApplyConfig(p) ==
    /\ p # 1
    /\ WsCallOf(p, "config.apply")

\* What PatchConfig and ApplyConfig return for the result r of their call.
WriteResult(r) ==
    IF r.kind # "res" THEN r.kind
    ELSE IF ~r.frame.ok THEN "failed"
    ELSE ""

\* The gateway rejects a request it has received and not answered yet.
PeerReject ==
    /\ conn = "open"
    /\ \E i \in 1..Len(outbound) :
          /\ \A j \in 1..Len(answered) : answered[j] # outbound[i].id
          /\ inbound' = Append(inbound, [ResFrame(outbound[i]) EXCEPT !.ok = FALSE])
          /\ answered' = Append(answered, outbound[i].id)
    /\ UNCHANGED <<nextID, pending, chan, done, conn, outbound, pump, wpc, wcall,
                   wret, wbudget, sent>>
    /\ UNCHANGED notWsVars

WriteCallSteps ==
    \E p \in WsProcs :
        \/ WsPatchConfig(p)
        \/ WsApplyConfig(p)
        \/ WsRegister(p)
        \/ WsWrite(p)
        \/ WsReceive(p)
        \/ WsDeadline(p)
        \/ WsClosed(p)
        \/ WsReturn(p)

WriteNext ==
    \/ WriteCallSteps
    \/ PumpRead
    \/ PumpSend
    \/ PumpExit
    \/ PeerAnswer
    \/ PeerReject
    \/ ConnDown

\* One connected WSClient whose callers write the configuration.
SpecWSWrite == WsInit /\ [][WriteNext]_vars

\* The calls of PatchConfig and ApplyConfig made so far.
Issued == MaxWsCalls - wbudget

\* C18: the session transport never retries a write.  A PatchConfig or
\* ApplyConfig call writes at most one request frame, however it ends
\* (accepted, rejected, deadline, write error, connection closed): the
\* frames a call has written are at most one, they are the frames carrying
\* its id, and the connection has carried no more frames than there were
\* calls.
C18_NoWriteRetry ==
    /\ \A p \in WsProcs :
          /\ sent[p] <= 1
          /\ wpc[p] # "idle" => Cardinality(Written(wcall[p].id)) = sent[p]
          /\ (wpc[p] = "idle" /\ wcall[p] # NoFrame) =>
                Cardinality(Written(wcall[p].id)) = sent[p]
    /\ Len(outbound) <= Issued
    /\ \A i \in 1..Len(outbound) : outbound[i].method \in WriteMethods

\* A PatchConfig was rejected by the gateway and an ApplyConfig lost its
\* connection; both have returned their error and each wrote one frame.
C18_Witness ==
    /\ \A p \in WsProcs : wpc[p] = "idle" /\ sent[p] = 1
    /\ wcall[1].method = "config.patch"
    /\ WriteResult(wret[1]) = "failed"
    /\ wcall[2].method = "config.apply"
    /\ WriteResult(wret[2]) = "connection closed"
    /\ Len(outbound) = 2

(***************************************************************************)
(* ApplyConfig on the document transport, with any baseHash: none, the     *)
(* hash the caller last observed, or the hash of some other document.      *)
(***************************************************************************)
ApplyHashes(p) == {NoHash, seen[p].hash, hashBytes(Text("stale"))}

CallApplyAny(p) ==
    /\ CallerFree(p)
    /\ \E raw \in ApplyRaws, h \in ApplyHashes(p) :
          Begin(p, [op |-> "ApplyConfig", patch |-> NoArg, raw |-> raw,
                    baseHash |-> h], "lock")

ApplyInit ==
    /\ MergeIdle
    /\ WsStart(0)
    /\ DialIdle
    /\ SectIdle
    /\ ResIdle
    /\ \E f \in InitFiles : FileStart(f, MaxCalls)

ApplyNext ==
    \E p \in Procs :
        \/ CallApplyAny(p)
        \/ CallGetConfig(p)
        \/ Lock(p)
        \/ getConfigLocked(p)
        \/ ApplyWrite(p)
        \/ Unlock(p)

SpecApply == ApplyInit /\ [][ApplyNext]_vars

\* ApplyConfig(raw) has returned without error at some time.
Applied(raw) ==
    \E i \in 1..Len(log) :
        /\ log[i].call.op = "ApplyConfig"
        /\ log[i].call.raw = raw
        /\ log[i].ret.err = ""

\* C19: ApplyConfig(raw, baseHash) replaces the whole document by raw, for
\* every baseHash (none, current or stale) and whether or not the file
\* existed: it succeeds, the file then holds exactly the bytes of raw, and a
\* GetConfig that finds the file as ApplyConfig(raw) left it returns Raw
\* equal to raw, with the hash of raw, also when raw is not JSON.
C19_ApplyReplaces ==
    /\ \A p \in Procs :
          (call[p].op = "ApplyConfig" /\ pc[p] = "unlock") =>
              /\ ret[p].err = ""
              /\ file = call[p].raw
    /\ \A i \in 1..Len(log) : log[i].call.op = "ApplyConfig" => log[i].ret.err = ""
    /\ \A q \in Procs :
          (call[q].op = "GetConfig" /\ pc[q] = "unlock" /\ Applied(atLock[q])) =>
              /\ ret[q].err = ""
              /\ ret[q].payload.raw = atLock[q]
              /\ ret[q].payload.hash = hashBytes(atLock[q])

\* ApplyConfig with a stale baseHash has replaced a populated document by
\* text that is not JSON, and the GetConfig after it returns that very text.
C19_Witness ==
    /\ file0 \notin {Missing, EmptyRaw, Text("not json")}
    /\ Len(log) = 1
    /\ log[1].call.op = "ApplyConfig"
    /\ log[1].call.raw = Text("not json")
    /\ log[1].call.baseHash = hashBytes(Text("stale"))
    /\ \E q \in Procs :
          /\ call[q].op = "GetConfig"
          /\ pc[q] = "unlock"
          /\ ret[q].payload.raw = Text("not json")
    /\ file = Text("not json")

(***************************************************************************)
(* The section helpers of client.go that read: GetSection and              *)
(* GetNestedSection call GetConfig, parse its Raw and look the keys up.    *)
(***************************************************************************)
\* Segments of the longest path asked for.
MaxPath == 2

\* Section reads the callers make in a run of SpecSection.
MaxReads == 1

\* A faulty walk that reports a segment that is not a map as not present.
RECURSIVE WalkLenient(_, _, _)
WalkLenient(current, keys, i) ==
    IF i > Len(keys) THEN [val |-> current, err |-> ""]
    ELSE IF keys[i] \notin DOMAIN Fields(current) THEN [val |-> Nil, err |-> ""]
    ELSE IF ~IsMap(Fields(current)[keys[i]]) THEN [val |-> Nil, err |-> ""]
    ELSE WalkLenient(Fields(current)[keys[i]], keys, i + 1)

\* The loop of GetNestedSection from segment i on, at the map current.
RECURSIVE Walk(_, _, _)
Walk(current, keys, i) ==
    IF i > Len(keys) THEN [val |-> current, err |-> ""]
    ELSE IF keys[i] \notin DOMAIN Fields(current) THEN [val |-> Nil, err |-> ""]
    ELSE IF ~IsMap(Fields(current)[keys[i]])
         THEN [val |-> Nil, err |-> "is not an object"]
    ELSE Walk(Fields(current)[keys[i]], keys, i + 1)

\* GetNestedSection on the result r of GetConfig: section, hash, error.
GetNestedSection(r, keys) ==
    IF r.err # "" THEN [val |-> Nil, hash |-> NoHash, err |-> "reading config"]
    ELSE LET parsed == parseRawJSON(r.payload.raw)
         IN  IF parsed.err
             THEN [val |-> Nil, hash |-> r.payload.hash, err |-> "parsing config JSON"]
             ELSE [val |-> Walk(parsed.val, keys, 1).val, hash |-> r.payload.hash,
                   err |-> Walk(parsed.val, keys, 1).err]

\* GetSection on the result r of GetConfig.
GetSection(r, key) ==
    IF r.err # "" THEN [val |-> Nil, hash |-> NoHash, err |-> "reading config"]
    ELSE LET parsed == parseRawJSON(r.payload.raw)
         IN  IF parsed.err
             THEN [val |-> Nil, hash |-> r.payload.hash, err |-> "parsing config JSON"]
             ELSE IF key \notin DOMAIN Fields(parsed.val)
             THEN [val |-> Nil, hash |-> r.payload.hash, err |-> ""]
             ELSE IF ~IsMap(Fields(parsed.val)[key])
             THEN [val |-> Nil, hash |-> r.payload.hash, err |-> "is not an object"]
             ELSE [val |-> Fields(parsed.val)[key], hash |-> r.payload.hash, err |-> ""]

\* The paths asked for, and the documents they are asked of: values that
\* are a number, null, a map, and a map holding a map.
Paths == UNION {[1..n -> Keys] : n \in 1..MaxPath}

SectionValues ==
    {Num(1), Nil, Map("a" :> Num(1)), Map("b" :> Map("a" :> Num(1)))}

SectionFiles ==
    {Missing, Text("not json"), Compact(Nil)}
        \cup {Compact(d) : d \in MapsOver(SectionValues)}

\* A helper is called; it calls GetConfig.
CallSection(p) ==
    /\ task[p] = NoTask
    /\ budget > 0
    /\ budget' = budget - 1
    /\ sect[p].stage # "get"
    /\ \E fn \in {"GetSection", "GetNestedSection"}, keys \in Paths :
          /\ fn = "GetSection" => Len(keys) = 1
          /\ sect' = [sect EXCEPT ![p] = [NoSect EXCEPT !.stage = "get", !.fn = fn,
                                                     !.keys = keys]]
    /\ Begin(p, [op |-> "GetConfig", patch |-> NoArg, raw |-> NoArg,
                 baseHash |-> NoHash], "lock")
    /\ UNCHANGED <<file, mu, cfg, seen, task, extWrites, file0, atLock, log, created>>
    /\ UNCHANGED <<mergeVars, wsVars, dialVars, resVars>>

\* GetConfig has returned: the helper parses, looks up and returns.
SectionReturn(p) ==
    /\ sect[p].stage = "get"
    /\ pc[p] = "idle"
    /\ LET r == IF sect[p].fn = "GetSection"
                THEN GetSection(ret[p], sect[p].keys[1])
                ELSE GetNestedSection(ret[p], sect[p].keys)
       IN  sect' = [sect EXCEPT ![p].stage = "done", ![p].val = r.val,
                                ![p].hash = r.hash, ![p].err = r.err]
    /\ UNCHANGED <<mergeVars, fileVars, wsVars, dialVars, resVars>>

SectionInit ==
    /\ MergeIdle
    /\ WsStart(0)
    /\ DialIdle
    /\ SectIdle
    /\ ResIdle
    /\ \E f \in SectionFiles : FileStart(f, MaxReads)

SectionNext ==
    \E p \in Procs :
        \/ CallSection(p)
        \/ Lock(p)
        \/ getConfigLocked(p)
        \/ Unlock(p)
        \/ SectionReturn(p)

SpecSection == SectionInit /\ [][SectionNext]_vars

\* The value of document d at the first n segments of path ks, where every
\* one of them is present.
RECURSIVE At(_, _, _)
At(d, ks, n) == IF n = 0 THEN d ELSE Fields(At(d, ks, n - 1))[ks[n]]

\* The first n segments of ks are present in d and their values are maps.
RECURSIVE MapsAlong(_, _, _)
MapsAlong(d, ks, n) ==
    \/ n = 0
    \/ /\ MapsAlong(d, ks, n - 1)
       /\ ks[n] \in DOMAIN Fields(At(d, ks, n - 1))
       /\ IsMap(At(d, ks, n))

\* C20: GetSection(k) and GetNestedSection(k1..kn) walk nested map lookups
\* over the document GetConfig returned.  With D that document: if a segment
\* is absent where the walk arrives they return nil, the hash of the
\* document and no error; if a segment is present and its value is not a
\* map (a number, a list, a null) they return a type error; otherwise they
\* return the map at the path; and the file is never changed.
C20_SectionWalk ==
    /\ file = file0
    /\ \A p \in Procs :
          (sect[p].stage = "done" /\ ~parseRawJSON(ReadPayload(file).raw).err) =>
              LET D == parseRawJSON(ReadPayload(file).raw).val
                  ks == sect[p].keys
              IN  /\ sect[p].hash = hashBytes(ReadPayload(file).raw)
                  /\ \A n \in 1..Len(ks) :
                        (MapsAlong(D, ks, n - 1)
                            /\ ks[n] \notin DOMAIN Fields(At(D, ks, n - 1))) =>
                                (sect[p].val = Nil /\ sect[p].err = "")
                  /\ \A n \in 1..Len(ks) :
                        (MapsAlong(D, ks, n - 1)
                            /\ ks[n] \in DOMAIN Fields(At(D, ks, n - 1))
                            /\ ~IsMap(At(D, ks, n))) =>
                                (sect[p].val = Nil /\ sect[p].err = "is not an object")
                  /\ MapsAlong(D, ks, Len(ks)) =>
                        (sect[p].val = At(D, ks, Len(ks)) /\ sect[p].err = "")

\* On the document  {a: {a:1}, b: {b: {a:1}}}  GetNestedSection(b, b) has
\* returned the map {a:1} it found two levels down, with the document's hash.
C20_Witness ==
    /\ file = Compact(Map("a" :> Map("a" :> Num(1)) @@ "b" :> Map("b" :> Map("a" :> Num(1)))))
    /\ \E p \in Procs :
          /\ sect[p].stage = "done"
          /\ sect[p].fn = "GetNestedSection"
          /\ sect[p].keys = <<"b", "b">>
          /\ sect[p].val = Map("a" :> Num(1))
          /\ sect[p].err = ""
          /\ sect[p].hash = hashBytes(file)

(***************************************************************************)
(* PatchNestedSection of client.go: the helper that writes a section at a  *)
(* path.  It wraps the value in one map per segment, innermost first, and  *)
(* returns what PatchConfig returns.                                       *)
(***************************************************************************)
\* A faulty wrapping that starts from the first segment, so that the last
\* segment ends up outermost.
RECURSIVE NestWrong(_, _, _)
NestWrong(patch, keys, i) ==
    IF i > Len(keys) THEN patch
    ELSE NestWrong(Map(keys[i] :> patch), keys, i + 1)

PatchNestedReversed(value, keys) == NestWrong(value, keys, 1)

\* The loop of PatchNestedSection: patch wrapped in segments i down to 1.
RECURSIVE NestFrom(_, _, _)
NestFrom(patch, keys, i) ==
    IF i < 1 THEN patch
    ELSE NestFrom(Map(keys[i] :> patch), keys, i - 1)

\* The patch PatchNestedSection hands to PatchConfig.
PatchNestedSection(value, keys) == NestFrom(value, keys, Len(keys))

\* The values written: maps with a leaf, with a null and with a map.
NestedValues ==
    {Map("a" :> Num(1)), Map("b" :> Nil), Map("a" :> Map("b" :> Num(1)))}

\* The documents written into: none, one that is not JSON, and documents
\* in which the path is absent, ends at a number, or ends at a map that has
\* members of its own and siblings.
NestedFiles ==
    {Missing, Text("not json"),
     Compact(Map("a" :> Num(1))),
     Compact(Map("a" :> Map("a" :> Num(1) @@ "b" :> Num(1)) @@ "b" :> Num(1))),
     Compact(Map("a" :> Map("a" :> Map("a" :> Num(1)) @@ "b" :> Map("a" :> Num(1) @@ "b" :> Num(1)))
                 @@ "b" :> Map("a" :> Num(1))))}

\* The hashes the callers pass: none, and the hash of the empty document.
NestedHashes == {NoHash, hashBytes(EmptyRaw)}

\* The paths written at: one segment, and two segments either way round.
NestedPaths == {<<"a">>, <<"a", "b">>, <<"b", "a">>}

\* Calls of PatchNestedSection in a run of SpecNested.
MaxNested == 1

\* PatchNestedSection is called; it calls PatchConfig.
CallPatchNested(p) ==
    /\ task[p] = NoTask
    /\ budget > 0
    /\ budget' = budget - 1
    /\ sect[p].stage # "get"
    /\ \E value \in NestedValues, keys \in NestedPaths, h \in NestedHashes :
          /\ sect' = [sect EXCEPT ![p] = [NoSect EXCEPT !.stage = "patch",
                                                     !.fn = "PatchNestedSection",
                                                     !.keys = keys, !.val = value,
                                                     !.hash = h]]
          /\ Begin(p, [op |-> "PatchConfig", patch |-> PatchNestedSection(value, keys),
                       raw |-> NoArg, baseHash |-> h], "lock")
    /\ UNCHANGED <<file, mu, cfg, seen, task, extWrites, file0, atLock, log, created>>
    /\ UNCHANGED <<mergeVars, wsVars, dialVars, resVars>>

\* The caller reads back the path it wrote, as TestPatchNestedSection does.
CallReadBack(p) ==
    /\ sect[p].fn = "PatchNestedSection"
    /\ sect' = [sect EXCEPT ![p] = [NoSect EXCEPT !.stage = "get",
                                               !.fn = "GetNestedSection",
                                               !.keys = sect[p].keys]]
    /\ Begin(p, [op |-> "GetConfig", patch |-> NoArg, raw |-> NoArg,
                 baseHash |-> NoHash], "lock")
    /\ UNCHANGED <<file, mu, cfg, seen, task, budget, extWrites, file0, atLock, log,
                   created>>
    /\ UNCHANGED <<mergeVars, wsVars, dialVars, resVars>>

NestedInit ==
    /\ MergeIdle
    /\ WsStart(0)
    /\ DialIdle
    /\ SectIdle
    /\ ResIdle
    /\ \E f \in NestedFiles : FileStart(f, MaxNested)

NestedNext ==
    \E p \in Procs :
        \/ CallPatchNested(p)
        \/ CallReadBack(p)
        \/ Lock(p)
        \/ getConfigLocked(p)
        \/ PatchWrite(p)
        \/ Unlock(p)
        \/ SectionReturn(p)

SpecNested == NestedInit /\ [][NestedNext]_vars

\* The object {k1: {... {kn: v}}} for the path ks, from the outside in.
RECURSIVE Nested(_, _)
Nested(ks, v) == IF ks = <<>> THEN v ELSE Map(Head(ks) :> Nested(Tail(ks), v))

\* Every key of d that is beside the path ks, from segment i on, has in r
\* the value it has in d.
RECURSIVE OutsidePath(_, _, _, _)
OutsidePath(d, r, ks, i) ==
    /\ IsMap(r)
    /\ \A k \in DOMAIN Fields(d) \ {ks[i]} :
          k \in DOMAIN r[2] /\ r[2][k] = Fields(d)[k]
    /\ (i < Len(ks) /\ ks[i] \in DOMAIN Fields(d) /\ IsMap(Fields(d)[ks[i]])) =>
          /\ ks[i] \in DOMAIN r[2]
          /\ OutsidePath(Fields(d)[ks[i]], r[2][ks[i]], ks, i + 1)

\* Every call of PatchNestedSection made one call of PatchConfig: those
\* returned and those under way are as many as the calls of the helper.
OneCallEach ==
    Cardinality({i \in 1..Len(log) : log[i].call.op = "PatchConfig"})
        + Cardinality({p \in Procs : pc[p] # "idle" /\ call[p].op = "PatchConfig"})
            = MaxNested - budget

\* PatchNestedSection handed PatchConfig the nested object and its baseHash.
Delegated ==
    \A p \in Procs :
        sect[p].fn = "PatchNestedSection" =>
            /\ call[p].op = "PatchConfig"
            /\ call[p].patch = Nested(sect[p].keys, sect[p].val)
            /\ call[p].baseHash = sect[p].hash

\* The successful PatchConfig of p is about to return: what it wrote keeps
\* every key beside the path.
FrameKept ==
    \A p \in Procs :
        (sect[p].fn = "PatchNestedSection" /\ pc[p] = "unlock" /\ ret[p].err = "") =>
            OutsidePath(parseRawJSON(ReadPayload(atLock[p]).raw).val,
                        parseRawJSON(ret[p].wrote).val, sect[p].keys, 1)

\* p has read the path ks back, and the call before that read, in the order
\* the mutex was held, was a successful PatchNestedSection of v at ks.
ReadBack(p, ks, v) ==
    /\ sect[p].stage = "done"
    /\ sect[p].fn = "GetNestedSection"
    /\ sect[p].keys = ks
    /\ \E j \in 2..Len(log) :
          /\ log[j].p = p
          /\ \A i \in (j + 1)..Len(log) : log[i].p # p
          /\ log[j - 1].call.op = "PatchConfig"
          /\ log[j - 1].call.patch = Nested(ks, v)
          /\ log[j - 1].ret.err = ""

\* The statement as given: exactly one PatchConfig with the minimal nested
\* object and the given baseHash; after a success with a map value the path
\* reads back as a map holding every key/value of the value; keys outside
\* the path are unchanged.
C21_EveryMemberReadBack ==
    /\ OneCallEach
    /\ Delegated
    /\ FrameKept
    /\ \A p \in Procs, ks \in NestedPaths, v \in NestedValues :
          (IsMap(v) /\ ReadBack(p, ks, v)) =>
              /\ sect[p].err = ""
              /\ IsMap(sect[p].val)
              /\ \A k \in DOMAIN v[2] :
                    k \in DOMAIN sect[p].val[2] /\ sect[p].val[2][k] = v[2][k]

\* C21: PatchNestedSection(value, baseHash, k1..kn) with n >= 1 issues
\* exactly one PatchConfig whose patch is {k1:{...{kn:value}}} and whose
\* baseHash is the one given.  On the document transport, after it succeeds
\* with a map value, GetNestedSection(k1..kn) returns a map that holds every
\* member of value that is neither null nor a map with the value given; a
\* member that is a map is read back as a map; a null member is absent from
\* what was written if the path held a map before and is written as null if
\* it did not; and every key of the document outside the path is unchanged.
C21_NestedPatch ==
    /\ OneCallEach
    /\ Delegated
    /\ FrameKept
    /\ \A p \in Procs, ks \in NestedPaths, v \in NestedValues :
          (IsMap(v) /\ ReadBack(p, ks, v)) =>
              /\ sect[p].err = ""
              /\ IsMap(sect[p].val)
              /\ \A k \in DOMAIN v[2] :
                    /\ (v[2][k] # Nil /\ ~IsMap(v[2][k])) =>
                          k \in DOMAIN sect[p].val[2] /\ sect[p].val[2][k] = v[2][k]
                    /\ IsMap(v[2][k]) =>
                          k \in DOMAIN sect[p].val[2] /\ IsMap(sect[p].val[2][k])
    /\ \A p \in Procs :
          (sect[p].fn = "PatchNestedSection" /\ pc[p] = "unlock" /\ ret[p].err = ""
                /\ IsMap(sect[p].val)) =>
              LET before == parseRawJSON(ReadPayload(atLock[p]).raw).val
                  after == parseRawJSON(ret[p].wrote).val
                  ks == sect[p].keys
              IN  \A k \in DOMAIN sect[p].val[2] :
                      sect[p].val[2][k] = Nil =>
                          IF MapsAlong(before, ks, Len(ks))
                          THEN k \notin DOMAIN Fields(At(after, ks, Len(ks)))
                          ELSE Fields(At(after, ks, Len(ks)))[k] = Nil

\* {a: 1} was written at the path a.b of a document whose a.b held the map
\* {a:1, b:1} beside a sibling a.a and a top-level b; the path then read
\* back as {a:1, b:1}, and the siblings are still in the file.
C21_Witness ==
    /\ \E p \in Procs :
          /\ ReadBack(p, <<"a", "b">>, Map("a" :> Num(1)))
          /\ sect[p].val = Map("a" :> Num(1) @@ "b" :> Num(1))
    /\ file0 = Compact(Map("a" :> Map("a" :> Map("a" :> Num(1)) @@ "b" :> Map("a" :> Num(1) @@ "b" :> Num(1)))
                          @@ "b" :> Map("a" :> Num(1))))
    /\ parseRawJSON(file).val[2]["b"] = Map("a" :> Num(1))
    /\ parseRawJSON(file).val[2]["a"][2]["a"] = Map("a" :> Num(1))

(***************************************************************************)
(* The provider: Configure resolves its three settings and builds the      *)
(* client, a WSClient through NewWSClient or a FileClient.                 *)
(***************************************************************************)
\* The default of config_path.
DefaultConfigPath == "~/.openclaw/openclaw.json"

\* os.Getenv on the environment Configure runs in.
Getenv(envKey) == prov.env[envKey]

\* A faulty resolution in which the environment overrides the configuration.
stringValueOrEnvFirst(val, envKey, fallback) ==
    IF Getenv(envKey) # "" THEN Getenv(envKey)
    ELSE IF val # Null /\ val # Unknown THEN val[2]
    ELSE fallback

\* stringValueOrEnv: the HCL value if it is set and known, else the
\* environment variable if it is not empty, else the fallback.
stringValueOrEnv(val, envKey, fallback) ==
    IF val # Null /\ val # Unknown THEN val[2]
    ELSE IF Getenv(envKey) # "" THEN Getenv(envKey)
    ELSE fallback

\* expandPath: "~/" is replaced by the home directory, which may be unknown.
expandPath(path) ==
    IF path = DefaultConfigPath
    THEN IF Getenv("HOME") = ""
         THEN [path |-> "", err |-> TRUE]
         ELSE [path |-> "/home/u/.openclaw/openclaw.json", err |-> FALSE]
    ELSE [path |-> path, err |-> FALSE]

\* The configurations and environments Configure is run with.
HclGateway == {Null, Unknown, Str(""), Str("ws://hcl")}

HclToken == {Null, Str("hcl-token")}

HclConfigPath == {Null, Str("/hcl/openclaw.json")}

\* The environments: each variable set or not; the home directory is
\* unknown only in environments that set neither URL nor path, the only
\* ones in which Configure can come to ask for it.
Environments ==
    {e \in {[NoEnv EXCEPT !["OPENCLAW_GATEWAY_URL"] = g,
                          !["OPENCLAW_GATEWAY_TOKEN"] = t,
                          !["OPENCLAW_CONFIG_PATH"] = c, !["HOME"] = h] :
                g \in {"", "ws://env"}, t \in {"", "env-token"},
                c \in {"", "/env/openclaw.json"}, h \in {"", "/home/u"}} :
        e["HOME"] = "" => (e["OPENCLAW_GATEWAY_URL"] = "" /\ e["OPENCLAW_CONFIG_PATH"] = "")}

\* Configure up to its if statement: req.Config.Get, which may report an
\* error, and the three calls of stringValueOrEnv.
ConfigureResolve ==
    /\ prov.stage = "start"
    /\ \E getErr \in BOOLEAN :
          IF getErr
          THEN prov' = [prov EXCEPT !.stage = "done", !.diag = "config"]
          ELSE prov' = [prov EXCEPT
                  !.stage = "resolved",
                  !.gatewayURL = stringValueOrEnv(prov.hcl.gateway_url,
                                                  "OPENCLAW_GATEWAY_URL", ""),
                  !.token = stringValueOrEnv(prov.hcl.token,
                                             "OPENCLAW_GATEWAY_TOKEN", ""),
                  !.configPath = stringValueOrEnv(prov.hcl.config_path,
                                                  "OPENCLAW_CONFIG_PATH",
                                                  DefaultConfigPath)]
    /\ UNCHANGED <<mergeVars, fileVars, wsVars, dialVars, sectVars, cron>>

\* gatewayURL != "": Configure calls NewWSClient.
ConfigureDial ==
    /\ prov.stage = "resolved"
    /\ prov.gatewayURL # ""
    /\ prov' = [prov EXCEPT !.stage = "dialing",
                            !.made = Append(@, <<"NewWSClient", prov.gatewayURL,
                                                 prov.token>>)]
    /\ dpc = "unstarted"
    /\ dpc' = "loop"
    /\ UNCHANGED <<attempt, backoff, lastErr, ctxDone, sess, result, waits, dials,
                   tries>>
    /\ UNCHANGED <<mergeVars, fileVars, wsVars, sectVars, cron>>

\* NewWSClient has returned: the client, or the diagnostic and no client.
ConfigureWS ==
    /\ prov.stage = "dialing"
    /\ dpc = "returned"
    /\ prov' = IF result = "client"
               THEN [prov EXCEPT !.stage = "done",
                                 !.client = <<"ws", prov.gatewayURL, prov.token>>]
               ELSE [prov EXCEPT !.stage = "done",
                                 !.diag = "Failed to connect to OpenClaw Gateway"]
    /\ UNCHANGED <<mergeVars, fileVars, wsVars, dialVars, sectVars, cron>>

\* The else branch: NewFileClient(configPath).
ConfigureFile ==
    /\ prov.stage = "resolved"
    /\ prov.gatewayURL = ""
    /\ prov' = IF expandPath(prov.configPath).err
               THEN [prov EXCEPT !.stage = "done",
                                 !.made = Append(@, <<"NewFileClient", prov.configPath>>),
                                 !.diag = "Failed to initialize file client"]
               ELSE [prov EXCEPT !.stage = "done",
                                 !.made = Append(@, <<"NewFileClient", prov.configPath>>),
                                 !.client = <<"file", expandPath(prov.configPath).path>>]
    /\ UNCHANGED <<mergeVars, fileVars, wsVars, dialVars, sectVars, cron>>

ProviderInit ==
    /\ MergeIdle
    /\ FileStart(Missing, 0)
    /\ WsStart(0)
    /\ SectIdle
    /\ cron = NoCron
    /\ \E g \in HclGateway, t \in HclToken, c \in HclConfigPath, e \in Environments :
          prov = [NoProv EXCEPT !.stage = "start", !.env = e,
                                !.hcl = [gateway_url |-> g, token |-> t,
                                         config_path |-> c]]
    /\ dpc = "unstarted"
    /\ attempt = 0
    /\ backoff = InitialBackoff
    /\ lastErr = ""
    /\ ctxDone = FALSE
    /\ sess = NoSession
    /\ result = "none"
    /\ waits = <<>>
    /\ dials = 0
    /\ tries = <<>>

ProviderNext ==
    \/ ConfigureResolve
    \/ ConfigureDial
    \/ ConfigureWS
    \/ ConfigureFile
    \/ DialNext

\* One call of Configure.
SpecProvider == ProviderInit /\ [][ProviderNext]_vars

\* Setting n, with HCL value h, variable e and default d, resolved to r as
\* the documentation orders the sources: HCL, then environment, then default.
ResolvedAs(h, e, d, r) ==
    /\ (h # Null /\ h # Unknown) => r = h[2]
    /\ (h \in {Null, Unknown} /\ prov.env[e] # "") => r = prov.env[e]
    /\ (h \in {Null, Unknown} /\ prov.env[e] = "") => r = d

\* C22: each setting resolves as its HCL value, else its environment
\* variable, else its default.  If the resolved gateway_url is not empty the
\* provider uses the WebSocket transport, whatever config_path is: it calls
\* NewWSClient with the resolved URL and token, never NewFileClient, and if
\* the connection is not established Configure fails with no client.
\* Otherwise it dials nothing and builds the FileClient on the resolved
\* config_path (home directory expanded).
C22_ModeSelection ==
    prov.stage \in {"resolved", "dialing", "done"} /\ prov.diag # "config" =>
        /\ ResolvedAs(prov.hcl.gateway_url, "OPENCLAW_GATEWAY_URL", "", prov.gatewayURL)
        /\ ResolvedAs(prov.hcl.token, "OPENCLAW_GATEWAY_TOKEN", "", prov.token)
        /\ ResolvedAs(prov.hcl.config_path, "OPENCLAW_CONFIG_PATH",
                      "~/.openclaw/openclaw.json", prov.configPath)
        /\ prov.gatewayURL # "" =>
              /\ prov.made \in {<<>>, <<<<"NewWSClient", prov.gatewayURL, prov.token>>>>}
              /\ prov.client[1] # "file"
              /\ prov.stage = "done" =>
                    IF result = "client"
                    THEN prov.client = <<"ws", prov.gatewayURL, prov.token>>
                            /\ prov.diag = ""
                    ELSE prov.client = <<"none">>
                            /\ prov.diag = "Failed to connect to OpenClaw Gateway"
        /\ prov.gatewayURL = "" =>
              /\ dials = 0
              /\ dpc = "unstarted"
              /\ prov.stage = "done" =>
                    /\ prov.made = <<<<"NewFileClient", prov.configPath>>>>
                    /\ IF prov.configPath = "~/.openclaw/openclaw.json"
                       THEN IF prov.env["HOME"] = ""
                            THEN prov.client = <<"none">> /\ prov.diag # ""
                            ELSE prov.client = <<"file", "/home/u/.openclaw/openclaw.json">>
                       ELSE prov.client = <<"file", prov.configPath>> /\ prov.diag = ""

\* gateway_url came from the environment and config_path from the HCL
\* configuration; six attempts to connect failed, and Configure ended with
\* the diagnostic, no client, and no FileClient on the configured path.
C22_Witness ==
    /\ prov.stage = "done"
    /\ prov.hcl.gateway_url = Null
    /\ prov.hcl.config_path = Str("/hcl/openclaw.json")
    /\ prov.gatewayURL = "ws://env"
    /\ prov.configPath = "/hcl/openclaw.json"
    /\ result = "error"
    /\ dials = 6
    /\ prov.client = <<"none">>
    /\ prov.diag = "Failed to connect to OpenClaw Gateway"
    /\ prov.made = <<<<"NewWSClient", "ws://env", prov.token>>>>

(***************************************************************************)
(* openclaw_cron Delete on the WebSocket transport: GetConfig, then the    *)
(* patch {cron: null}; an error of either is a warning if its text says    *)
(* the connection was closed, and an error diagnostic if not.  An error    *)
(* text is a sequence of pieces, cut so that each of the three phrases     *)
(* isConnectionClosed looks for is one piece wherever it occurs.           *)
(***************************************************************************)
ClosurePhrases ==
    {"connection closed", "websocket: close", "use of closed network connection"}

\* isConnectionClosed: err is not nil and its text contains a phrase.
isConnectionClosed(err) ==
    /\ err # <<>>
    /\ \E i \in 1..Len(err) : err[i] \in ClosurePhrases

\* What WriteMessage reports when it fails, and what a gateway may give as
\* the error of a response it rejects.
NetErrors ==
    {<<"websocket: close", " sent">>,
     <<"write tcp: ", "use of closed network connection">>,
     <<"write tcp: broken pipe">>}

GatewayErrors == {<<"invalid config">>, <<"upstream ", "connection closed">>}

\* The error of call for its result r, net being WriteMessage's error.
CallError(r, net) ==
    IF r.kind = "res" THEN <<>>
    ELSE IF r.kind = "ws write" THEN <<"ws write: ">> \o net
    ELSE IF r.kind = "marshal request" THEN <<"marshal request: ", "unsupported type">>
    ELSE <<r.kind>>

\* The error GetConfig and PatchConfig return: that of call, or the
\* method's "failed" with the error the gateway gave.
MethodError(method, r, gw, net) ==
    IF r.kind # "res" THEN CallError(r, net)
    ELSE IF ~r.frame.ok THEN <<method, " failed: ">> \o gw
    ELSE <<>>

\* How the call behind an error ended.
FailureKind(r) ==
    IF r.kind # "res" THEN r.kind
    ELSE IF ~r.frame.ok THEN "rejected"
    ELSE ""

\* call: json.Marshal(frame) fails, and call returns with its slot removed.
WsMarshalFails(p) ==
    /\ wpc[p] = "write"
    /\ wret' = [wret EXCEPT ![p] = [kind |-> "marshal request", frame |-> NoFrame]]
    /\ wpc' = [wpc EXCEPT ![p] = "cleanup"]
    /\ UNCHANGED <<nextID, pending, chan, done, conn, outbound, inbound, pump,
                   wcall, wbudget, answered, sent>>
    /\ UNCHANGED notWsVars

\* The goroutine running Delete: the first one.
CronProc == CHOOSE p \in WsProcs : \A q \in WsProcs : p <= q

\* Delete, first statement: r.client.GetConfig(ctx).
CronGetConfig(p) ==
    /\ p = CronProc
    /\ cron.stage = "get"
    /\ wret[p] = NoWsRet
    /\ WsCallOf(p, "config.get")

\* GetConfig has returned.
CronGot ==
    /\ cron.stage = "get"
    /\ wpc[CronProc] = "idle"
    /\ wret[CronProc] # NoWsRet
    /\ \E gw \in GatewayErrors, net \in NetErrors :
          LET err == MethodError("config.get", wret[CronProc], gw, net)
          IN  cron' = IF err = <<>> THEN [cron EXCEPT !.stage = "patch"]
                      ELSE [stage |-> "done", kind |-> "read", err |-> err,
                            warning |-> isConnectionClosed(err),
                            error |-> ~isConnectionClosed(err)]
    /\ UNCHANGED <<mergeVars, fileVars, wsVars, dialVars, sectVars, prov>>

\* PatchNestedSection(ctx, r.client, nil, cfg.Hash, "cron"): PatchConfig.
CronPatch(p) ==
    /\ p = CronProc
    /\ cron.stage = "patch"
    /\ wcall[p].method = "config.get"
    /\ WsCallOf(p, "config.patch")

\* The patch has returned: a warning, an error, or neither.
CronDone ==
    /\ cron.stage = "patch"
    /\ wpc[CronProc] = "idle"
    /\ wcall[CronProc].method = "config.patch"
    /\ \E gw \in GatewayErrors, net \in NetErrors :
          LET err == MethodError("config.patch", wret[CronProc], gw, net)
          IN  cron' = [stage |-> "done", kind |-> FailureKind(wret[CronProc]),
                       err |-> err,
                       warning |-> isConnectionClosed(err),
                       error |-> err # <<>> /\ ~isConnectionClosed(err)]
    /\ UNCHANGED <<mergeVars, fileVars, wsVars, dialVars, sectVars, prov>>

CronInit ==
    /\ MergeIdle
    /\ FileStart(Missing, 0)
    /\ WsStart(MaxWsCalls)
    /\ DialIdle
    /\ SectIdle
    /\ prov = NoProv
    /\ cron = [NoCron EXCEPT !.stage = "get"]

CronNext ==
    \/ \E p \in WsProcs :
          \/ CronGetConfig(p)
          \/ CronPatch(p)
          \/ WsRegister(p)
          \/ WsMarshalFails(p)
          \/ WsWrite(p)
          \/ WsReceive(p)
          \/ WsDeadline(p)
          \/ WsClosed(p)
          \/ WsReturn(p)
    \/ CronGot
    \/ CronDone
    \/ PumpRead
    \/ PumpSend
    \/ PumpExit
    \/ PeerAnswer
    \/ PeerReject
    \/ ConnDown

\* One Delete of the openclaw_cron resource.
SpecCron == CronInit /\ [][CronNext]_vars

\* C23: a connection lost during a write is a soft warning: when the delete
\* patch of openclaw_cron Delete fails with an error whose text contains
\* "connection closed", "websocket: close" or "use of closed network
\* connection", Delete reports a warning and no error; every other failure
\* of the patch (deadline exceeded, rejected by the gateway, marshal error)
\* is reported as an error.
C23_ClosedIsWarning ==
    (cron.stage = "done" /\ cron.kind # "read") =>
        /\ cron.kind \in {"connection closed", "ws write"} /\ isConnectionClosed(cron.err) =>
              cron.warning /\ ~cron.error
        /\ cron.kind \in {"context deadline exceeded", "rejected", "marshal request"} =>
              cron.error /\ ~cron.warning
        /\ cron.kind = "" => ~cron.error /\ ~cron.warning

(***************************************************************************)
(* Properties of the request identifiers and of the delivery slots of one  *)
(* WSClient, checked under SpecWS.                                         *)
(***************************************************************************)
\* The ids the state holds: of the calls made, of the frames written, of
\* the slots registered.
IdsInUse ==
    {wcall[p].id : p \in {q \in WsProcs : wcall[q] # NoFrame}}
        \cup {outbound[i].id : i \in 1..Len(outbound)}
        \cup pending

\* C24: within one WSClient request ids are unique and strictly increasing
\* in the order they are generated: each new id is greater than every id
\* generated before it; no two calls, however interleaved, send the same
\* id; and a slot is never registered under an id that already has one.
C24_UniqueIds ==
    /\ [](\A i, j \in 1..Len(outbound) : i # j => outbound[i].id # outbound[j].id)
    /\ [](\A p, q \in WsProcs :
            (p # q /\ wpc[p] # "idle" /\ wpc[q] # "idle") => wcall[p].id # wcall[q].id)
    /\ [](\A p \in WsProcs : wpc[p] = "register" => wcall[p].id \notin pending)
    /\ [](\A id \in IdsInUse : id <= nextID)
    /\ [][\A p \in WsProcs :
            wcall'[p] # wcall[p] =>
                /\ wcall'[p].id = nextID'
                /\ \A id \in IdsInUse : wcall'[p].id > id]_vars

\* Two calls are in flight at once: their ids are 2 and 3 (the handshake
\* took 1), both have a slot and both frames are written.
C24_Witness ==
    /\ pending = {2, 3}
    /\ Len(outbound) = 2
    /\ \A p \in WsProcs : wpc[p] = "select"
    /\ {wcall[p].id : p \in WsProcs} = {2, 3}

\* The callers of SpecWS, with calls whose request cannot be encoded.
SlotsNext ==
    \/ WsNext
    \/ \E p \in WsProcs : WsMarshalFails(p)

\* One connected WSClient, every way a call can end.
SpecSlots == WsInit /\ [][SlotsNext]_vars

\* The statement as given: in every state the pending table holds exactly
\* the ids of the calls in progress.
C25_PendingIsInProgress ==
    pending = {wcall[p].id : p \in {q \in WsProcs : wpc[q] # "idle"}}

\* C25: a call's slot is registered in the pending table before its request
\* frame is written, and is removed when the call returns, whatever the
\* outcome (response, marshal error, write error, deadline, connection
\* closed).  In every state the pending table holds exactly the ids of the
\* calls in progress that are past their registration (a call that has
\* taken its id and not yet registered has no slot), and it is empty when
\* no call is in progress.
C25_SlotLifecycle ==
    /\ [](pending = {wcall[p].id :
                        p \in {q \in WsProcs : wpc[q] \in {"write", "select", "cleanup"}}})
    /\ []((\A p \in WsProcs : wpc[p] = "idle") => pending = {})
    /\ [][\A p \in WsProcs :
            sent'[p] > sent[p] =>
                /\ wcall[p].id \in pending
                /\ outbound' = Append(outbound, wcall[p])]_vars
    /\ [][\A p \in WsProcs :
            (wpc[p] # "idle" /\ wpc'[p] = "idle") =>
                /\ wcall[p].id \notin pending'
                /\ wret'[p].kind \in {"res", "marshal request", "ws write",
                                      "context deadline exceeded", "connection closed"}]_vars

\* One call has returned the marshal error and its slot is gone, while the
\* call of the other goroutine waits in the select with its slot registered.
C25_Witness ==
    \E p, q \in WsProcs :
        /\ wpc[p] = "idle"
        /\ wret[p].kind = "marshal request"
        /\ wpc[q] = "select"
        /\ pending = {wcall[q].id}
        /\ wcall[p].id \notin pending

(***************************************************************************)
(* Calls made after readPump has ended.  Goroutine 1 calls at any time;    *)
(* the other goroutines call only once c.done is closed.  A read can fail  *)
(* while the connection still takes writes, so a late request may be       *)
(* written all the same.                                                   *)
(***************************************************************************)
\* The goroutine that calls at any time: the first one.
EarlyCaller == CHOOSE p \in WsProcs : \A q \in WsProcs : p <= q

WsCallEarly(p) ==
    /\ p = EarlyCaller
    /\ WsCallOf(p, "config.get")

WsCallLate(p) ==
    /\ p # EarlyCaller
    /\ done
    /\ WsCallOf(p, "config.get")

\* call: WriteMessage succeeds although reads have failed.
WsWriteOneWay(p) ==
    /\ wpc[p] = "write"
    /\ conn = "closed"
    /\ outbound' = Append(outbound, wcall[p])
    /\ sent' = [sent EXCEPT ![p] = @ + 1]
    /\ wpc' = [wpc EXCEPT ![p] = "select"]
    /\ UNCHANGED <<nextID, pending, chan, done, conn, inbound, pump, wcall, wret,
                   wbudget, answered>>
    /\ UNCHANGED notWsVars

LateNext ==
    \/ \E p \in WsProcs :
          \/ WsCallEarly(p)
          \/ WsCallLate(p)
          \/ WsRegister(p)
          \/ WsWrite(p)
          \/ WsWriteOneWay(p)
          \/ WsReceive(p)
          \/ WsDeadline(p)
          \/ WsClosed(p)
          \/ WsReturn(p)
    \/ PumpRead
    \/ PumpSend
    \/ PumpExit
    \/ PeerAnswer
    \/ ConnDown

\* One connected WSClient that is called before and after its receiver loop
\* has ended.
SpecLate == WsInit /\ [][LateNext]_vars

\* C26: after the receiver loop of a WSClient has terminated (read failure
\* or Close) the client never reconnects: the loop stays ended, the
\* connection stays down and nothing is dialled; and every call issued
\* afterwards returns a failure (write error, connection closed, or the
\* caller's deadline) and none returns a response.
C26_NoReconnect ==
    /\ [](\A p \in WsProcs \ {EarlyCaller} :
            (wpc[p] \in {"cleanup", "idle"} /\ wret[p] # NoWsRet) =>
                /\ wret[p].kind \in {"ws write", "connection closed",
                                     "context deadline exceeded"}
                /\ wret[p].frame = NoFrame)
    /\ [][done => (done' /\ conn' = "closed" /\ pump'.pc = "exit"
                       /\ dials' = dials /\ sess' = sess)]_vars

\* A call issued after the loop had ended wrote its request (the connection
\* still took it) and returned "connection closed", no response.
C26_Witness ==
    \E p \in WsProcs \ {EarlyCaller} :
        /\ done
        /\ wpc[p] = "idle"
        /\ sent[p] = 1
        /\ wret[p].kind = "connection closed"
        /\ \E i \in 1..Len(outbound) : outbound[i] = wcall[p]

(***************************************************************************)
(* The order of the handshake, checked under SpecDial.                     *)
(***************************************************************************)
\* The attempt in hand has written a frame.
FrameSent == sess.wrote # <<>>

\* The context ends while handshake waits in its select.
EndsDuringWait == dpc = "challenge" /\ ~ctxDone /\ ctxDone'

\* C27: on each attempt the receiver loop is started before any frame is
\* sent; the connect request is written only after the wait for the
\* challenge has resolved, by a connect.challenge event or by the 5 seconds
\* passing; and when the caller's context ends during the wait no connect
\* request is sent and the attempt fails.
C27_HandshakeOrder ==
    /\ [](FrameSent => (sess.pump /\ sess.challenge \in ChallengeEnds))
    /\ [](sess.challenge = "cancelled" =>
             /\ ~FrameSent
             /\ sess.conn = "closed"
             /\ tries # <<>>
             /\ tries[Len(tries)] = "ws handshake")
    /\ [][(sess'.wrote # sess.wrote /\ sess'.wrote # <<>>) =>
             (dpc = "connect" /\ sess.pump /\ sess.challenge \in ChallengeEnds)]_vars
    /\ [][EndsDuringWait =>
             /\ sess'.challenge = "cancelled"
             /\ sess'.wrote = <<>>
             /\ sess'.conn = "closed"
             /\ attempt' = attempt + 1
             /\ tries' = Append(tries, "ws handshake")
             /\ lastErr' = "ws handshake"]_vars

\* The second attempt was cancelled in its wait after the first had sent its
\* connect request and was refused: nothing was sent, the connection is
\* closed and the attempt is counted as failed.
C27_Witness ==
    /\ sess.challenge = "cancelled"
    /\ ctxDone
    /\ ~FrameSent
    /\ sess.conn = "closed"
    /\ dials = 2
    /\ tries = <<"ws handshake", "ws handshake">>
    /\ sess.slot = NoArg

(***************************************************************************)
(* The signed payload of the connect request, checked under SpecDial.      *)
(***************************************************************************)
\* The connect request of the attempt in hand, its device block and the
\* fields of the payload its signature was made over.
ConnectFrame == sess.wrote[1]

DeviceBlock == ConnectFrame.device

SignedFields == DeviceBlock["signature"][3]

\* The request is of version 2 with the nonce n: tag v2, nine fields of
\* which the last is n, and n in the device block.
IsV2With(n) ==
    /\ Len(SignedFields) = 9
    /\ SignedFields[1] = "v2"
    /\ SignedFields[9] = n
    /\ "nonce" \in DOMAIN DeviceBlock
    /\ DeviceBlock["nonce"] = <<n>>

\* The request is of version 1: tag v1, eight fields, and no nonce in the
\* device block.
IsV1 ==
    /\ Len(SignedFields) = 8
    /\ SignedFields[1] = "v1"
    /\ "nonce" \notin DOMAIN DeviceBlock

\* The challenge handshake took from c.challenge had a non-empty string
\* nonce; and some challenge that readPump received before the wait ended
\* had one, taken or discarded.
UsableTaken == sess.challenge = "event" /\ NonceOf(sess.got) # ""

UsableReceived == UsableTaken \/ (sess.lost # NoArg /\ sess.lost # <<"">>)

\* C28: the signed string has tag v2 with the nonce as its ninth and last
\* field, and the device block carries the nonce, if and only if a challenge
\* with a non-empty string nonce was received before the wait ended;
\* otherwise it has tag v1 and eight fields and there is no nonce in the
\* connect request.
C28_AnyChallengeReceived ==
    FrameSent =>
        /\ UsableReceived <=> (\E n \in {"n1"} : IsV2With(n))
        /\ ~UsableReceived <=> IsV1

\* C28 as the code has it: version 2 with the nonce if and only if the
\* challenge that handshake took from the one-place c.challenge, the first
\* that readPump received on the connection and received before the wait
\* ended, had a non-empty string nonce; a challenge that arrives while the
\* first is still unread is discarded whatever its nonce.  Otherwise
\* version 1 with eight fields and no nonce in the connect request.
C28_SignedVersion ==
    FrameSent =>
        /\ ConnectFrame = ConnectRequest(sess.key, sess.nonce)
        /\ sess.nonce = (IF sess.challenge = "event" THEN NonceOf(sess.got) ELSE "")
        /\ UsableTaken <=> IsV2With(NonceOf(sess.got))
        /\ ~UsableTaken <=> IsV1

\* The first challenge had an empty nonce and a second one, with the nonce
\* n1, came while the first was unread: the request is of version 1.
C28_Witness ==
    /\ FrameSent
    /\ sess.challenge = "event"
    /\ sess.got = Map("nonce" :> Str(""))
    /\ sess.lost = <<"n1">>
    /\ IsV1
    /\ sess.connected

(***************************************************************************)
(* The sessions of successive attempts, checked under SpecDial.            *)
(***************************************************************************)
\* An attempt begins: dialAndHandshake is entered and dials.
AttemptBegins == dials' = dials + 1

\* C29: session state is never reused across attempts.  Every attempt that
\* gets a connection builds a new session: an empty pending table, an empty
\* challenge slot, a request counter at zero, nothing written and no key,
\* whatever the attempt before left; the keypair an attempt generates was
\* generated by no attempt before it, so each attempt has its own identity
\* string; the connect request is the first of its session, and carries the
\* identity of its own attempt.
C29_FreshSession ==
    /\ [][AttemptBegins => sess' \in {NewSession, NoSession}]_vars
    /\ [][AttemptBegins => (sess'.conn = "open" => sess' = NewSession)]_vars
    /\ [][dials' \in {dials, dials + 1}]_vars
    /\ [][(sess'.key # sess.key /\ sess'.key # 0) => (sess.key = 0 /\ sess'.key = dials)]_vars
    /\ [](sess.key # 0 => sess.key = dials)
    /\ [](FrameSent =>
             /\ ConnectFrame.id = 1
             /\ sess.nextID = 1
             /\ DeviceBlock["id"] = <<"sha256", dials>>
             /\ DeviceBlock["publicKey"] = <<"pub", dials>>
             /\ SignedFields[2] = dials)
    /\ [](sess.conn = "open" => sess.pending = {})

\* The first attempt failed in its handshake; the second has a session of
\* its own: identity 2, request id 1, and a wait for the challenge that
\* ended by itself.
C29_Witness ==
    /\ dials = 2
    /\ tries = <<"ws handshake", "client">>
    /\ sess.connected
    /\ sess.key = 2
    /\ sess.nextID = 1
    /\ ConnectFrame = ConnectRequest(2, "")
    /\ sess.challenge = "timeout"
    /\ sess.pending = {}

(***************************************************************************)
(* The order of the frames on one connection, checked under SpecWS.        *)
(***************************************************************************)
\* The caller whose call wrote a frame.
WrittenBy(frame) == frame.params[2]

\* C30: within one connection frames are transmitted in the order in which
\* the calls obtained their request ids, for every interleaving of
\* concurrent callers: a frame with a smaller id is never written after one
\* with a larger id.
C30_FramesInIdOrder ==
    \A i, j \in 1..Len(outbound) : i < j => outbound[i].id < outbound[j].id

\* C30 as the code has it: frames are written one at a time, each once and
\* at the end of what was written, in the order in which the calls take the
\* write lock.  A frame written before another call obtains its id precedes
\* that call's frame and has the smaller id, so the successive calls of one
\* caller are transmitted in the order of their ids; two concurrent calls
\* may be transmitted in either order, whichever obtained its id first.
C30_WriteOrder ==
    /\ [](\A i, j \in 1..Len(outbound) :
             /\ i # j => outbound[i].id # outbound[j].id
             /\ (i < j /\ WrittenBy(outbound[i]) = WrittenBy(outbound[j])) =>
                   outbound[i].id < outbound[j].id)
    /\ [](\A i \in 1..Len(outbound) : outbound[i].id <= nextID)
    /\ [][outbound' # outbound =>
             \E p \in WsProcs :
                /\ wpc[p] = "write"
                /\ outbound' = Append(outbound, wcall[p])]_vars
    /\ [][nextID' # nextID =>
             \A i \in 1..Len(outbound) : outbound[i].id < nextID']_vars

\* Two callers took the ids 2 and 3 in that order and wrote their frames in
\* the other.
C30_Witness ==
    /\ Len(outbound) = 2
    /\ outbound[1].id = 3
    /\ outbound[2].id = 2
    /\ WrittenBy(outbound[1]) # WrittenBy(outbound[2])

(***************************************************************************)
(* The write lock of the WebSocket transport, checked under SpecWS.        *)
(***************************************************************************)
\* Caller p waits for a response that the peer has not sent.
Unanswered(p) == wpc[p] = "select" /\ ~WasAnswered(wcall[p].id)

TakesChallenge == sess.challenge # "event" /\ sess'.challenge = "event"

RoutesChallenge ==
    /\ sess.conn = "open"
    /\ sess'.conn = "open"
    /\ ~AttemptBegins
    /\ \/ sess'.slot # sess.slot /\ sess'.slot # NoArg
       \/ sess'.lost # sess.lost

StrayId == MaxWsCalls + 2

Answers(id) == {j \in 1..Len(answered) : answered[j] = id}

\* The peer sends the response to a request a second time.
PeerRepeat ==
    /\ conn = "open"
    /\ \E i \in 1..Len(outbound) :
          /\ Cardinality(Answers(outbound[i].id)) = 1
          /\ inbound' = Append(inbound, ResFrame(outbound[i]))
          /\ answered' = Append(answered, outbound[i].id)
    /\ UNCHANGED <<nextID, pending, chan, done, conn, outbound, pump, wpc, wcall,
                   wret, wbudget, sent>>
    /\ UNCHANGED notWsVars

\* The peer sends a response under an id that is in no one's name.
PeerStray ==
    /\ conn = "open"
    /\ Answers(StrayId) = {}
    /\ inbound' = Append(inbound, [type |-> "res", id |-> StrayId, method |-> "",
                                   params |-> NoArg, ok |-> TRUE,
                                   payload |-> NoArg, event |-> ""])
    /\ answered' = Append(answered, StrayId)
    /\ UNCHANGED <<nextID, pending, chan, done, conn, outbound, pump, wpc, wcall,
                   wret, wbudget, sent>>
    /\ UNCHANGED notWsVars

RepeatNext == WsNext \/ PeerRepeat \/ PeerStray

\* One connected WSClient whose peer may answer a request twice and may
\* answer requests that were never made.
SpecRepeat == WsInit /\ [][RepeatNext]_vars

\* readPump is in ch <- frame, the slot is full, and no call is left that
\* would empty it.
PumpStuck ==
    /\ pump.pc = "send"
    /\ Len(chan[pump.to]) > 0
    /\ \A p \in WsProcs : ~(wpc[p] = "select" /\ wcall[p].id = pump.to)

\* C33: the receiver loop never blocks while delivering a response.  For
\* every sequence of inbound frames, with several responses of one id, with
\* responses of unknown ids and with responses that come after their caller
\* has timed out, readPump returns to reading the connection: it is never
\* left in a send that no one will receive.
C33_PumpNeverBlocks == ~PumpStuck

(***************************************************************************)
(* A response delivered before the connection closed, checked under SpecWS.*)
(***************************************************************************)
\* The response to p's request was put into p's slot and p has not taken it.
DeliveredUnread(p) ==
    /\ wcall[p].id \in DOMAIN chan
    /\ chan[wcall[p].id] # <<>>

\* C34: a call whose response was placed in its slot before the connection
\* closed returns that response: a call returns "connection closed" only if
\* no response with its id was delivered before it returned.
C34_DeliveredIsReturned ==
    \A p \in WsProcs :
        (wpc[p] \in {"cleanup", "idle"} /\ wret[p].kind = "connection closed") =>
            ~DeliveredUnread(p)

(***************************************************************************)
(* A response that comes too late, checked under SpecWS.                   *)
(***************************************************************************)
\* The ids of the calls that are between registration and return.
InCall == {wcall[p].id : p \in {q \in WsProcs : wpc[q] \in {"write", "select", "cleanup"}}}

\* readPump reads a response whose id has no slot.
ReadsLate ==
    /\ inbound # <<>>
    /\ inbound' = Tail(inbound)
    /\ Head(inbound).type = "res"
    /\ Head(inbound).id \notin pending

\* C35: a response that arrives after its call has returned on its deadline
\* is dropped.  readPump finds no slot and goes on reading, nothing is put
\* into any slot or into the pending table; no call, earlier or later, ever
\* returns a response of another id; and the returned call has no entry in
\* the pending table, which holds only ids of calls still in progress.
C35_LateResponseDropped ==
    /\ [][ReadsLate => (pump' = pump /\ chan' = chan /\ pending' = pending
                         /\ wret' = wret)]_vars
    /\ [](\A p \in WsProcs : wret[p].kind = "res" => wret[p].frame.id = wcall[p].id)
    /\ [](\A p \in WsProcs :
             (wpc[p] = "idle" /\ wret[p].kind = DeadlineError) => wcall[p].id \notin pending)
    /\ [](pending \subseteq InCall)
    /\ [](\A id \in DOMAIN chan : \A i \in 1..Len(chan[id]) : chan[id][i].id = id)

\* A call returned on its deadline, the answer to it came afterwards and
\* was dropped, and a later call has returned the answer to its own request.
C35_Witness ==
    \E p, q \in WsProcs :
        /\ wpc[p] = "idle"
        /\ wret[p].kind = DeadlineError
        /\ WasAnswered(wcall[p].id)
        /\ chan[wcall[p].id] = <<>>
        /\ inbound = <<>>
        /\ pump.pc = "read"
        /\ pending = {}
        /\ wpc[q] = "idle"
        /\ wret[q].kind = "res"
        /\ wret[q].frame.id = wcall[q].id
        /\ wcall[q].id > wcall[p].id

(***************************************************************************)
(* Nulls of a patch, checked under SpecMerge.                              *)
(***************************************************************************)
\* C36: a null in a patch always means delete and is never stored: for
\* every document without a null at any depth and every patch, with nulls
\* at any depth, under keys the document lacks or holds a non-map at, the
\* merged document has no null at any depth.
C36_NullNeverStored ==
    (Len(mOut) >= 1 /\ NoNull(mTarget)) => NoNull(mOut[1])

(***************************************************************************)
(* Deleting a nested section on the document transport: as                 *)
(* PluginResource.Delete does, PatchNestedSection is called with the value *)
(* nil, and the path is read back with GetNestedSection.                   *)
(***************************************************************************)
\* The paths deleted: those of two segments.
DeletedPaths == {keys \in NestedPaths : Len(keys) >= 2}

\* PatchNestedSection(ctx, c, nil, hash, keys...).
CallDeleteNested(p) ==
    /\ task[p] = NoTask
    /\ budget > 0
    /\ budget' = budget - 1
    /\ sect[p].stage # "get"
    /\ \E keys \in DeletedPaths, h \in NestedHashes :
          /\ sect' = [sect EXCEPT ![p] = [NoSect EXCEPT !.stage = "patch",
                                                     !.fn = "PatchNestedSection",
                                                     !.keys = keys, !.val = Nil,
                                                     !.hash = h]]
          /\ Begin(p, [op |-> "PatchConfig", patch |-> PatchNestedSection(Nil, keys),
                       raw |-> NoArg, baseHash |-> h], "lock")
    /\ UNCHANGED <<file, mu, cfg, seen, task, extWrites, file0, atLock, log, created>>
    /\ UNCHANGED <<mergeVars, wsVars, dialVars, resVars>>

UnsetNext ==
    \E p \in Procs :
        \/ CallDeleteNested(p)
        \/ CallReadBack(p)
        \/ Lock(p)
        \/ getConfigLocked(p)
        \/ PatchWrite(p)
        \/ Unlock(p)
        \/ SectionReturn(p)

\* One nested section is deleted from a document, and the path is read back.
SpecUnset == NestedInit /\ [][UnsetNext]_vars

\* C37: deleting a nested section is observable as "not present" from any
\* starting document: after PatchNestedSection(nil, hash, k1..kn), n >= 2,
\* has succeeded on the document transport, GetNestedSection(k1..kn) returns
\* nil and no error, whether the parent path existed in the document or not.
C37_DeletedReadsAbsent ==
    \A p \in Procs, ks \in DeletedPaths :
        ReadBack(p, ks, Nil) => (sect[p].err = "" /\ sect[p].val = Nil)

(***************************************************************************)
(* PatchConfig on a document that is no JSON object: ApplyConfig stores    *)
(* any string, so the file may hold text that is not JSON, or the JSON of  *)
(* a number, a list or null.                                               *)
(***************************************************************************)
\* The raw strings stored by ApplyConfig, and found at the start.
BrokenRaws ==
    {Text("not json"), Compact(Num(1)), Compact(List(<<Num(1)>>)), Compact(Nil),
     Compact(Map("a" :> Num(1)))}

CallApplyBroken(p) ==
    /\ CallerFree(p)
    /\ \E raw \in BrokenRaws :
          Begin(p, [op |-> "ApplyConfig", patch |-> NoArg, raw |-> raw,
                    baseHash |-> NoHash], "lock")

BrokenInit ==
    /\ MergeIdle
    /\ WsStart(0)
    /\ DialIdle
    /\ SectIdle
    /\ ResIdle
    /\ \E f \in BrokenRaws : FileStart(f, MaxCalls)

BrokenNext ==
    \E p \in Procs :
        \/ CallApplyBroken(p)
        \/ CallPatchConfig(p)
        \/ Lock(p)
        \/ getConfigLocked(p)
        \/ PatchWrite(p)
        \/ ApplyWrite(p)
        \/ Unlock(p)

\* One FileClient whose callers store raw strings and patch.
SpecBroken == BrokenInit /\ [][BrokenNext]_vars

\* parseRawJSON fails on what the file held when p took the mutex.
Unparsable(p) == parseRawJSON(ReadPayload(atLock[p]).raw).err

DeleteSucceeded == cron.stage = "done" /\ ~cron.error

\* Delete handed its patch to PatchConfig.
PatchHandedOver == cron.kind # "read" /\ wcall[CronProc].method = "config.patch"

\* C39: Delete of openclaw_cron reports success, with or without the
\* warning of a lost connection, only if the delete patch was handed to
\* PatchConfig; when the connection is lost before any patch is sent,
\* Delete reports an error.
C39_SuccessOnlyAfterPatch == DeleteSucceeded => PatchHandedOver

====
